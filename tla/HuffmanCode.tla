---------------------------- MODULE HuffmanCode ----------------------------
(***************************************************************************)
(* huffmanEncoder.generate (flate/huffman_fast.go): a length-limited       *)
(* Huffman code from symbol frequencies.  Symbols are sorted by frequency, *)
(* the inner nodes of the tree are built in place over the sorted array,   *)
(* their depths counted with depths beyond the limit pulled up, and        *)
(* canonical codewords handed out in symbol order.                         *)
(*                                                                         *)
(* A frequency array is given by its used part, a function from the        *)
(* symbols that occur to numbers above 0; a codeword is the sequence of    *)
(* its bits in the order in which they are written.                        *)
(***************************************************************************)
EXTENDS Integers, SequencesExt

\* The bits of v, the highest of n first: how a codeword is written.
codeBits(v, n) == [k \in 1..n |-> (v \div 2 ^ (n - k)) % 2]

\* The elements of S in the order lt.
inOrder(S, lt(_, _)) ==
  LET before(x) == Cardinality({y \in S : lt(y, x)})
  IN [i \in 1..Cardinality(S) |-> CHOOSE x \in S : before(x) = i - 1]

\* sortSymbols puts t in front of s: by the counter of the frequency, of which there is
\* one for each below numSyms - 1; in the last one by frequency (insertionSortU32);
\* and by the symbol.
sortsFirst(freq, numSyms, t, s) ==
  LET counter(x) == IF freq[x] < numSyms - 1 THEN freq[x] ELSE numSyms - 1
  IN \/ counter(t) < counter(s)
     \/ counter(t) = counter(s) /\ freq[t] < freq[s]
     \/ freq[t] = freq[s] /\ t < s

\* Where sortSymbols puts s.
place(freq, numSyms, s) == Cardinality({t \in DOMAIN freq : sortsFirst(freq, numSyms, t, s)}) + 1

sortSymbols(freq, numSyms) ==
  [i \in 1..Cardinality(DOMAIN freq) |-> CHOOSE s \in DOMAIN freq : place(freq, numSyms, s) = i]

-----------------------------------------------------------------------------

\* Mutated form of twoLeaves: leaves first, whatever the inner nodes weigh.
twoLeavesFirst(t, e) == t.i + 1 <= Len(t.a) - 1

\* The two lightest nodes are leaves.
twoLeaves(t, e) ==
  /\ t.i + 1 <= Len(t.a) - 1
  /\ t.b = e \/ t.a[t.i + 2] <= t.a[t.b + 1]

\* An iteration of buildTree: inner node e is built from the two lightest nodes
\* without parent.  a[i] is the weight of leaf i until an inner node is built
\* there, then the weight of that node until it has a parent, then its parent.
\* t = [a, i, b]: next leaf, next inner node without parent.
treeStep(t, e) ==
  LET last == Len(t.a) - 1
      at(j) == t.a[j + 1]
      twoInner == t.b + 2 <= e /\ (t.i > last \/ at(t.b + 1) < at(t.i))
      leaves == IF twoLeaves(t, e) THEN 2 ELSE IF twoInner THEN 0 ELSE 1
      inner == t.b..(t.b + 1 - leaves)
      weight == CASE leaves = 2 -> at(t.i) + at(t.i + 1)
                  [] leaves = 0 -> at(t.b) + at(t.b + 1)
                  [] OTHER -> at(t.i) + at(t.b)
  IN [a |-> [j \in DOMAIN t.a |-> IF j - 1 \in inner THEN e
                                  ELSE IF j - 1 = e THEN weight ELSE t.a[j]],
      i |-> t.i + leaves,
      b |-> t.b + 2 - leaves]

buildTree(weights) ==
  LET last == Len(weights) - 1
      tree[e \in 0..last] ==
        IF e = 0 THEN [a |-> weights, i |-> 0, b |-> 0] ELSE treeStep(tree[e - 1], e - 1)
  IN tree[last].a

\* Mutated form of pulledUp: the limit itself is taken if it is in use.
pulledUpLate(lenCounts, depth, maxLen) ==
  IF depth < maxLen THEN depth
  ELSE Max({l \in 1..maxLen : lenCounts[l] # 0})

\* An inner node at maxLen or deeper takes the place of a codeword at the
\* deepest length above the limit that has one.
pulledUp(lenCounts, depth, maxLen) ==
  IF depth < maxLen THEN depth
  ELSE Max({l \in 1..(maxLen - 1) : lenCounts[l] # 0})

\* An iteration of computeLengthCounts, c = [a, lenCounts]: the node's parent becomes
\* its depth; it takes a codeword there and gives two at the next.
deeper(c, node, maxLen) ==
  LET depth == c.a[c.a[node + 1] + 1] + 1
      l == pulledUp(c.lenCounts, depth, maxLen)
  IN [a |-> [c.a EXCEPT ![node + 1] = depth],
      lenCounts |-> [c.lenCounts EXCEPT ![l] = @ - 1, ![l + 1] = @ + 2]]

\* computeLengthCounts: from the root down.
computeLengthCounts(a, root, maxLen) ==
  LET counted[k \in 0..root] ==
        IF k = 0
        THEN [a |-> [a EXCEPT ![root + 1] = 0],
              lenCounts |-> [l \in 0..(maxLen + 1) |-> IF l = 1 THEN 2 ELSE 0]]
        ELSE deeper(counted[k - 1], root - k, maxLen)
  IN counted[root].lenCounts

\* How many symbols have more than l bits.
longerThan(lenCounts, maxLen) ==
  LET longer[l \in 0..maxLen] ==
        IF l = maxLen THEN 0 ELSE longer[l + 1] + lenCounts[l + 1]
  IN longer

\* genCodewords: the longest codewords go to the rarest symbols; codewords of
\* a length are numbered in symbol order.
genCodewords(freq, lenCounts, maxLen, numSyms) ==
  LET longer == longerThan(lenCounts, maxLen)
      next[l \in 1..maxLen] ==
        IF l = 1 THEN 0 ELSE 2 * (next[l - 1] + lenCounts[l - 1])
      lenOf == [s \in DOMAIN freq |-> LET i == place(freq, numSyms, s)
                                      IN Min({l \in 1..maxLen : longer[l] < i})]
      before(s) == Cardinality({t \in DOMAIN freq : t < s /\ lenOf[t] = lenOf[s]})
  IN [s \in 0..(numSyms - 1) |->
        IF s \in DOMAIN freq THEN codeBits(next[lenOf[s]] + before(s), lenOf[s]) ELSE << >>]

\* generate: the codes of all symbols, << >> for those that do not occur.
generate(freq, numSyms, maxBits) ==
  LET sorted == sortSymbols(freq, numSyms)
      numUsed == Cardinality(DOMAIN freq)
      maxLen == Min({maxBits, numUsed - 1, 15})
      a == buildTree([i \in 1..numUsed |-> freq[sorted[i]]])
  IN IF numUsed <= 2
     THEN [s \in 0..(numSyms - 1) |->
             IF s \in DOMAIN freq THEN <<Cardinality({t \in DOMAIN freq : t < s})>> ELSE << >>]
     ELSE genCodewords(freq, computeLengthCounts(a, numUsed - 2, maxLen), maxLen, numSyms)

-----------------------------------------------------------------------------
(* Reference: what a code must be, and the cost of an optimal one.         *)

\* 1 << n.
pow2[n \in 0..31] == IF n = 0 THEN 1 ELSE 2 * pow2[n - 1]

\* How many strings of l bits, up to limit, begin with no codeword, if count[l] codewords
\* have l bits; fewer than none for ever if once there are too many.
unused(count, limit) ==
  LET free[l \in 0..limit] == IF l = 0 THEN 1 ELSE 2 * free[l - 1] - count[l]
  IN free

\* The codes cover the symbols that occur, no code is longer than limit, they
\* use up the code space exactly, and a rarer symbol has no shorter code.
goodCode(freq, codes, limit) ==
  LET syms == DOMAIN freq
      free == unused([l \in 1..limit |-> Cardinality({s \in syms : Len(codes[s]) = l})], limit)
  IN /\ \A s \in DOMAIN codes : codes[s] # << >> <=> s \in syms
     /\ \A s \in syms : Len(codes[s]) <= limit
     /\ Cardinality(syms) > 1 => free[limit] = 0
     /\ \A s, t \in syms : freq[s] < freq[t] => Len(codes[s]) >= Len(codes[t])

\* Merging the two rarest, again and again.
OptimalCost(weights) ==
  LET merged[k \in 0..(Len(weights) - 1)] ==
        IF k = 0 THEN [left |-> weights, cost |-> 0]
        ELSE LET m == merged[k - 1]
                 s == SortSeq(m.left, <)
             IN [left |-> <<s[1] + s[2]>> \o SubSeq(s, 3, Len(s)), cost |-> m.cost + s[1] + s[2]]
  IN merged[Len(weights) - 1].cost
============================================================================
