------------------------------ MODULE FastLevels ------------------------------
(***************************************************************************)
(* The match finders of levels 1 to 6: FastEnc with the tables, the search *)
(* and the indexing of each level (flate/level1.go to level6.go).          *)
(*                                                                         *)
(* Level 2 has a table like level 1's, of other hashes.  Level 3 keeps the *)
(* last two positions of a hash (tableEntryPrev).  Levels 4 to 6 have a    *)
(* second table, for hashes of more bytes, which at 5 and 6 keeps two      *)
(* positions.                                                              *)
(*                                                                         *)
(* The hash of the bytes at a position, whether a candidate has the bytes  *)
(* that are wanted, and which of two matches is the longer are choices.    *)
(***************************************************************************)
EXTENDS FastEnc

CONSTANTS
  Short,    \* the hashes of e.table, one entry each
  Long,     \* the hashes of e.bTable, and of the table of level 3
  maxMatchLength, \* the longest match a token can say: 258
  Levels,   \* the levels to choose from
  MaxBack   \* bound: how far a match is extended backwards

Cur(h) == <<h, "cur">>
Prev(h) == <<h, "prev">>

ASSUME LevelsAssumption ==
  /\ Hash = {Cur(h) : h \in Short \cup Long} \cup {Prev(h) : h \in Long}
  /\ Short \cap Long = {}
  /\ maxMatchLength \in Nat /\ maxMatchLength >= 2 * 3
  /\ MinMatch = 4 /\ InputMargin > 3 /\ MaxOff > MinMatch
  /\ Levels \subseteq 1..6

VARIABLES
  level,    \* which encoder it is
  repeat,   \* level 6: the last offset
  len       \* levels 5 and 6: the length of the match once it is known, or 0

own == <<level, repeat, len>>
allVars == <<vars, own>>

\* What a position can be loaded at: inputMargin is this and 3 more.
Load == InputMargin - 3

keepsPrev == level \in {3, 5, 6}

-----------------------------------------------------------------------------
\* What is left of the tables when cur is taken down: levels 5 and 6 give up
\* both entries of a hash when the newer is too far away.
keptTable ==
  [h \in Hash |->
     IF h[2] = "prev" /\ shiftedTable[Cur(h[1])] = 0 THEN 0
     ELSE shiftedTable[h]]

\* Encode of each level up to its main loop.  Level 3 shifts both entries of a
\* hash, level 4 both tables.
Encode2(k) == level = 2 /\ encode(k, shiftedTable) /\ UNCHANGED own
Encode3(k) == level = 3 /\ encode(k, shiftedTable) /\ UNCHANGED own
Encode4(k) == level = 4 /\ encode(k, shiftedTable) /\ UNCHANGED own
Encode5(k) == level = 5 /\ encode(k, keptTable) /\ UNCHANGED own
Encode6(k) == level = 6 /\ encode(k, keptTable) /\ repeat' = 1 /\ UNCHANGED <<level, len>>

Latest(P) == CHOOSE p \in P : \A q \in P : q <= p

\* The tables x, a record of table and truth, after position p has been entered
\* under hash h; with prev, the entry that makes way is kept.
entered(x, h, p, prev) ==
  LET set(v, entry) == IF prev THEN [v EXCEPT ![Prev(h)] = v[Cur(h)], ![Cur(h)] = entry]
                               ELSE [v EXCEPT ![Cur(h)] = entry]
  IN [table |-> set(x.table, int32(p + cur)), truth |-> set(x.truth, p)]

\* The same for positions P in rising order, each under the hash f gives it.
indexed(x, P, f, prev) ==
  LET of(h) == {p \in P : f[p] = h}
      older(h) == of(h) \ {Latest(of(h))}
      set(v, entry(_)) ==
        [k \in Hash |->
           IF of(k[1]) = {} \/ (k[2] = "prev" /\ ~prev) THEN v[k]
           ELSE IF k[2] = "cur" THEN entry(Latest(of(k[1])))
           ELSE IF older(k[1]) = {} THEN v[Cur(k[1])]
           ELSE entry(Latest(older(k[1])))]
  IN IF P = {} THEN x
     ELSE [table |-> set(x.table, LAMBDA p : int32(p + cur)), truth |-> set(x.truth, LAMBDA p : p)]

now == [table |-> table, truth |-> truth]

become(x) == table' = x.table /\ truth' = x.truth

\* The variables of a match are declared anew for the next one.
noMatch == t' = 0 /\ claim' = Gone

\* The entry in slot h, as a candidate for position at.
cand(x, h, at) == [at |-> at, t |-> x.table[h] - cur, claim |-> x.truth[h]]

near(c) == inReach(c.at, c.t)

\* Level 3: "safe offset distance until s + 4".
near3(c) == c.at - c.t <= MaxOff - MinMatch

-----------------------------------------------------------------------------
\* Where the inner loop of levels 3 to 6 looks next.
following == s + 1 + (s - nextEmit) \div Skip

only(c, if) == IF if THEN {c} ELSE {}

short(x, h, p) == entered(x, h, p, FALSE)
long(x, h, p) == entered(x, h, p, keepsPrev)

\* "Do one right away" of level 2: unlike at level 1, a match found here does not
\* enter the position after it.
second2(a, same) ==
  /\ pc = "second"
  /\ nextS' = nextS + 1
  /\ become(short(now, a, s))
  /\ LET c == cand(now, Cur(a), s)
     IN /\ t' = c.t /\ claim' = c.claim
        /\ IF near(c) /\ same THEN pc' = "match" /\ s' = s
                              ELSE pc' = "search" /\ s' = nextS'
  /\ UNCHANGED <<cur, n, blk, nextEmit, emitted>>

\* The inner loop of level 2, on hashes of five bytes: the first half is level 1's.
seek2(a, a2, same) ==
  /\ level = 2
  /\ search(Cur(a), Cur(a2), same) \/ second2(a, same)
  /\ UNCHANGED own

\* What the inner loop of a level makes of position s, whose short hash is a
\* and long hash b (a2 and b2 at the following position): the tables if it goes
\* on, the tables if it stops, and the candidates it may stop with.
looked3(b) ==
  LET x == long(now, b, s)
      c == cand(now, Cur(b), s)
      p == cand(now, Prev(b), s)
  IN [on |-> x, stop |-> x, cands |-> only(c, near3(c)) \cup only(p, near3(c) /\ near3(p))]

looked4(a, b, b2) ==
  LET x == long(short(now, a, s), b, s)
      l == cand(now, Cur(b), s)
      c == cand(now, Cur(a), s)
      l2 == cand(x, Cur(b2), following)
  IN [on |-> x, stop |-> x,
      cands |-> only(l, near(l)) \cup only(c, near(c)) \cup only(l2, near(c) /\ near(l2))]

looked5(a, b, a2, b2) ==
  LET x == long(short(now, a, s), b, s)
      l == cand(now, Cur(b), s)
      p == cand(now, Prev(b), s)
      c == cand(now, Cur(a), s)
      l2 == cand(x, Cur(b2), following)
      p2 == cand(x, Prev(b2), following)
  IN [on |-> x,
      stop |-> long(short(x, a2, following), b2, following),
      cands |-> UNION {only(l, near(l)), only(p, near(l) /\ near(p)), only(c, near(c)),
                       only(l2, near(c) /\ near(l2)),
                       only(p2, near(c) /\ near(l2) /\ near(p2))}]

\* Level 6 also tries the last offset, one byte on, after a short candidate.
looked6(a, b, a2, b2) ==
  LET r == [at |-> s + 1, t |-> s - repeat + 1, claim |-> s - repeat + 1]
  IN [looked5(a, b, a2, b2) EXCEPT !.cands = @ \cup only(r, near(cand(now, Cur(a), s)))]

\* The inner loop of levels 3 to 6.
seek(a, b, a2, b2) ==
  /\ pc = "search"
  /\ nextS' = following
  /\ UNCHANGED <<cur, n, blk, nextEmit, level, len>>
  /\ \/ /\ nextS' > sLimit
        /\ emitRemainder(emitted)
        /\ repeat' = 1
        /\ UNCHANGED <<table, truth, s, t, claim>>
     \/ /\ nextS' <= sLimit
        /\ LET found == CASE level = 3 -> looked3(b)
                          [] level = 4 -> looked4(a, b, b2)
                          [] level = 5 -> looked5(a, b, a2, b2)
                          [] level = 6 -> looked6(a, b, a2, b2)
           IN \/ /\ become(found.on)
                 /\ s' = nextS'
                 /\ noMatch
                 /\ UNCHANGED pc
              \/ /\ become(found.stop)
                 /\ \E c \in found.cands : s' = c.at /\ t' = c.t /\ claim' = c.claim
                 /\ pc' = IF level > 4 THEN "best" ELSE "match"
        /\ UNCHANGED <<emitted, repeat>>

\* Mutated form of longer: off is not known to be positive.
longerUnsigned(m, h, from) ==
  LET t2 == table[h] - cur - m.l + 2
      off == from + 2 - t2
  IN {m} \cup
     IF off < MaxOff /\ t2 >= 0
     THEN {[s |-> from + 2, t |-> t2, claim |-> t2, l |-> k] : k \in (m.l + 1)..(n - from - 2)}
     ELSE {}

\* The matches that begin two bytes further on than from and are longer than m,
\* found by what slot h has for the end of m; and m itself.
longer(m, h, from) ==
  LET t2 == table[h] - cur - m.l + 2
      off == from + 2 - t2
  IN {m} \cup
     IF off > 0 /\ off < MaxOff /\ t2 >= 0
     THEN {[s |-> from + 2, t |-> t2, claim |-> t2, l |-> k] : k \in (m.l + 1)..(n - from - 2)}
     ELSE {}

\* Levels 5 and 6: "try to locate a better match by checking the end" of m,
\* where the long hash is b.
better5(m, b) == IF m.l < 30 /\ s + m.l < sLimit THEN longer(m, Cur(b), s) ELSE {m}

better6(m, b) ==
  IF s + m.l < sLimit /\ s + m.l - (table[Cur(b)] - cur) < MaxOff
  THEN UNION {longer(k, Prev(b), s) : k \in longer(m, Cur(b), s)} ELSE {m}

best(l, b) ==
  /\ pc = "best"
  /\ LET m == [s |-> s, t |-> t, claim |-> claim, l |-> l]
     IN \E k \in IF level = 5 THEN better5(m, b) ELSE better6(m, b) :
          s' = k.s /\ t' = k.t /\ claim' = k.claim /\ len' = k.l
  /\ pc' = "match"
  /\ UNCHANGED <<cur, n, blk, table, truth, nextS, nextEmit, emitted, level, repeat>>

every(step, from, below) == {i \in from..(below - 1) : (i - from) % step = 0}

\* The positions that are entered in the short and in the long table after a
\* match of L bytes which ends at end, if the search would go on at at but is
\* over (tail), or goes on there (between).
tail2(at, L) == [short |-> only(at, at + L + Load < n), long |-> {}]

between2(at, L) ==
  [short |-> {at - 2, at - 1} \cup UNION {{i, i + 2, i + 4} : i \in every(7, at - L + 2, at - 5)},
   long |-> {}]

tail3(end) ==
  LET p == t + (end - s) IN [short |-> {}, long |-> only(p, p + Load < n /\ p > 0)]

between3(at, L) ==
  [short |-> {}, long |-> every(6, at - L + 2, at - 5) \cup {at - 2, at - 1}]

tail4(at) == [short |-> only(at, at + Load < n), long |-> only(at, at + Load < n)]

between4(at) ==
  LET I == every(3, nextS, at - 1)
  IN [short |-> {i + 1 : i \in I} \cup {at - 1},
      long |-> {at - 1} \cup UNION {{i, i + 1} : i \in I}]

tail5 == [short |-> {}, long |-> {}]

between5(at, L) ==
  LET first == at - L + 1
      I == every(3, first + 4, at - 1)
  IN [short |-> {first, first + 2, at - 1} \cup {i + 1 : i \in I},
      long |-> {first, first + 1, at - 1} \cup I]

tail6 == LET I == every(2, nextS + 1, n - Load) IN [short |-> I, long |-> I]

between6(at) ==
  LET I == every(2, nextS + 1, at - 1)
  IN [short |-> I, long |-> UNION {{i, i + 1} : i \in I}]

\* Levels 2 and 3: position at, with hash h, is entered as well; the candidates
\* for another match there at once.
again2(x, h, at) == LET c == cand(x, Cur(h), at) IN only(c, ~(at - c.t > MaxOff))

again3(x, h, at) ==
  LET c == cand(x, Cur(h), at)
      p == cand(x, Prev(h), at)
      nearer(k) == k.at - k.t < MaxOff - MinMatch
  IN only(c, nearer(c)) \cup only(p, nearer(c) /\ nearer(p))

again(x, h, at) ==
  /\ become(entered(x, h, at, keepsPrev))
  /\ \/ pc' = "search" /\ s' = at + 1 /\ noMatch
     \/ /\ pc' = "match"
        /\ s' = at
        /\ \E k \in IF level = 2 THEN again2(x, h, at) ELSE again3(x, h, at) :
             t' = k.t /\ claim' = k.claim

baseMatchLength == 3

\* Mutated form of piece: nothing is left over for the next one.
pieceGreedy(xl) == IF xl > maxMatchLength THEN maxMatchLength ELSE xl

\* AddMatchLong: the length of the next token of a match that has xl bytes left.
piece(xl) ==
  IF xl <= maxMatchLength THEN xl
  ELSE IF xl > maxMatchLength + baseMatchLength THEN maxMatchLength
  ELSE maxMatchLength - baseMatchLength

\* The bytes the tokens of AddMatchLong say: a token has a byte for the length
\* less baseMatchLength.
said[xl \in Nat] ==
  IF xl = 0 THEN 0
  ELSE ((piece(xl) - baseMatchLength) % (maxMatchLength - baseMatchLength + 1))
         + baseMatchLength + said[xl - piece(xl)]

AddMatchLong(xl) == said[xl]

\* The tables after the positions P have been entered, whatever their hashes.
reindexed(P) ==
  LET with(x, Q, S, prev) == {indexed(x, Q, f, prev) : f \in [Q -> S]}
  IN UNION {with(x, P.long, Long, keepsPrev) : x \in with(now, P.short, Short, FALSE)}

\* A match at s: extended by back and to l bytes, emitted with the literals
\* before it, and the tables updated; at
\* levels 2 and 3 another match may begin at once.
matchLevel(back, l) ==
  /\ pc = "match"
  /\ back \in backwards
  /\ len > 0 => l = len
  /\ LET end == s + l
         at == resumeAt(end)
         L == back + l
         lits == IF nextEmit < s - back THEN s - back - nextEmit ELSE 0
         done == emitted + lits + AddMatchLong(L)
         over == at >= sLimit
         P == CASE level = 2 -> IF over THEN tail2(at, L) ELSE between2(at, L)
                [] level = 3 -> IF over THEN tail3(end) ELSE between3(at, L)
                [] level = 4 -> IF over THEN tail4(at) ELSE between4(at)
                [] level = 5 -> IF over THEN tail5 ELSE between5(at, L)
                [] level = 6 -> IF over THEN tail6 ELSE between6(at)
     IN /\ nextEmit' = end
        /\ \E x \in reindexed(P) :
             \/ /\ over
                /\ become(x)
                /\ s' = at
                /\ emitRemainder(done)
                /\ noMatch
             \/ /\ ~over
                /\ level > 3
                /\ become(x)
                /\ s' = at
                /\ pc' = "search"
                /\ emitted' = done
                /\ noMatch
             \/ /\ ~over
                /\ level \in {2, 3}
                /\ \E h \in IF level = 2 THEN Short ELSE Long : again(x, h, at)
                /\ emitted' = done
  /\ repeat' = IF level = 6 /\ pc' # "idle" THEN s - t ELSE 1
  /\ len' = 0
  /\ UNCHANGED <<cur, n, blk, nextS, level>>

-----------------------------------------------------------------------------

backs == {k \in backwards : k <= MaxBack}

InitLevels ==
  /\ Init
  /\ level \in Levels
  /\ repeat = 1
  /\ len = 0

NextLevels ==
  \/ Reset /\ UNCHANGED own
  \/ level = 1 /\ \E k \in Blocks : Encode(k) /\ UNCHANGED own
  \/ \E k \in Blocks : Encode2(k) \/ Encode3(k) \/ Encode4(k) \/ Encode5(k) \/ Encode6(k)
  \/ /\ level = 1
     /\ \E a, a2 \in Short, same \in BOOLEAN :
          \/ search(Cur(a), Cur(a2), same)
          \/ second(Cur(a), same)
          \/ pc = "match" /\ \E back \in backs, l \in MinMatch..(n - s) :
                              match(back, l, Cur(a), Cur(a2), same)
     /\ UNCHANGED own
  \/ \E a, a2 \in Short, same \in BOOLEAN : seek2(a, a2, same)
  \/ level > 2 /\ \E a, a2 \in Short, b, b2 \in Long : seek(a, b, a2, b2)
  \/ pc = "best" /\ \E l \in MinMatch..(n - s), b \in Long : best(l, b)
  \/ level > 1 /\ pc = "match" /\ \E back \in backs, l \in MinMatch..(n - s) : matchLevel(back, l)

SpecLevels == InitLevels /\ [][NextLevels]_allVars
==============================================================================
