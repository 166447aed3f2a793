----------------------------- MODULE MCInflate -----------------------------
(* Inputs for model checking Inflate with a window of 3 bytes: all streams *)
(* of up to two blocks, and two with a sync marker between them, from a    *)
(* menu that has empty, fitting and window-filling stored blocks,          *)
(* literals, short, self-overlapping and window-exceeding copies, copies   *)
(* that reach back into the dictionary or before the start, invalid        *)
(* headers and codes; and streams of one block cut off after every item.   *)
(* Half of the Huffman blocks have fixed tables, half dynamic ones, behind *)
(* which more or less than a byte of what was read ahead is left.          *)
EXTENDS Inflate, SequencesExt

\* A part of a stream: an item, the bits it takes and the least number of bits
\* it is read with.
Part(it, bits, ahead) == [it |-> it, bits |-> bits, ahead |-> ahead]

Stored(n) == [typ |-> "stored", n |-> n, body |-> [i \in 1..n |-> Raw]]
Huff(body) == [typ |-> "fixed", n |-> 0, body |-> Append(body, EOB)]
Dyn(body) == [typ |-> "dynamic", n |-> 0, body |-> Append(body, EOB)]
Invalid == [typ |-> "invalid", n |-> 0, body |-> << >>]

Menu ==
  {Stored(0), Stored(2), Stored(4), Invalid,
   Huff(<< >>), Dyn(<<Lit>>), Dyn(<<Lit, Lit, Pair(2, 4)>>),
   Huff(<<Pair(3, 7), Lit>>), Dyn(<<Lit, Pair(1, 2), Lit>>),
   Huff(<<Lit, BadSym>>)}

\* The bits of an item of a block: of the fixed codes, or of a dynamic one.
Size(typ, it) ==
  CASE it = Raw -> 8
    [] it = EOB -> IF typ = "fixed" THEN 7 ELSE 3
    [] it.k = "pair" -> IF typ = "fixed" THEN 12 ELSE 7
    [] OTHER -> IF typ = "fixed" THEN 8 ELSE 2
HeaderSize(typ) == IF typ = "dynamic" THEN 43 ELSE 3

\* maxRead: fixed codes have 7 bits at least.
Ahead(typ, fin) ==
  IF typ = "fixed" THEN 7 ELSE Size(typ, EOB) + (IF fin THEN 0 ELSE 10)

Items(b, fin) ==
  LET typ == IF b.typ \in {"fixed", "dynamic"} THEN "huffman" ELSE b.typ
  IN <<Part(Header(typ, b.n, fin), HeaderSize(b.typ), 0)>>
       \o [i \in 1..Len(b.body) |-> Part(b.body[i], Size(b.typ, b.body[i]), Ahead(b.typ, fin))]

\* Where the parts of s start.
Starts(s) ==
  LET at[k \in 1..(Len(s) + 1)] ==
        IF k = 1 THEN 0
        ELSE LET part == s[k - 1]
             IN IF part.it.k = "header" /\ part.it.typ = "stored"
                THEN Fetched(at[k - 1] + 3) + 32
                ELSE at[k - 1] + part.bits
  IN at

\* The input that has the parts s, with a dictionary of p bytes.
Input(s, tail, p) ==
  [items   |-> [k \in 1..Len(s) |-> s[k].it],
   start   |-> Starts(s),
   maxRead |-> [k \in 1..Len(s) |-> s[k].ahead],
   tail    |-> tail,
   preset  |-> p]

\* Streams of one to n blocks of which the last is final.
Streams(n) ==
  {FlattenSeq([i \in 1..Len(bs) |-> Items(bs[i], i = Len(bs))]) :
     bs \in UNION {[1..k -> Menu] : k \in 1..n}}

\* Could the cut after part c lie inside a (length, distance) pair?
TailPlaces(s, c) ==
  IF c < Len(s) /\ s[c + 1].it.k = "pair" THEN {"symbol", "extraBits"} ELSE {"symbol"}

Whole(ss, presets) ==
  {Input(s, [place |-> "symbol", error |-> "EOF"], p) : s \in ss, p \in presets}
Cut(ss, errors) ==
  {Input(SubSeq(s, 1, c), [place |-> p, error |-> e], 0) :
     <<s, c, p, e>> \in {<<s, c, p, e>> \in
         ss \X (0..7) \X {"symbol", "extraBits"} \X errors :
           c < Len(s) /\ p \in TailPlaces(s, c)}}

\* A block, a sync marker, and a block after it.
Synced ==
  {FlattenSeq(<<Items(b, FALSE), Items(Stored(0), FALSE), Items(Huff(<<Lit>>), TRUE)>>) :
     b \in Menu \cup {Dyn(<< >>)}}

\* Streams for reuse: a stream resumed from each of its checkpoints, and one
\* stream after another on the same decompressor.
ReuseStreams ==
  {FlattenSeq(<<Items(Stored(2), FALSE), Items(Huff(<<Lit, Lit, Pair(2, 4)>>), FALSE),
                Items(Stored(0), FALSE), Items(Dyn(<<Pair(3, 2)>>), TRUE)>>),
   FlattenSeq(<<Items(Dyn(<<Lit, Pair(1, 4)>>), FALSE),
                Items(Huff(<<Pair(3, 7)>>), FALSE), Items(Stored(4), TRUE)>>)}
MCReusable ==
  Whole(ReuseStreams, {0, 3}) \cup Cut({Items(Dyn(<<Lit, Lit, Pair(2, 4)>>), TRUE)}, {"EOF"})

MCInputs == Whole(Streams(2) \cup Synced, {0, 2}) \cup Cut(Streams(1), {"EOF", "io"})
            \cup MCReusable
=============================================================================
