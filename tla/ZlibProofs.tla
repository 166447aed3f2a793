------------------------------ MODULE ZlibProofs ------------------------------
(***************************************************************************)
(* Zlib for all levels, lengths of writes, destinations that fail at any   *)
(* unit, any number of streams, and every way of cutting off or changing   *)
(* what the Reader is given.                                               *)
(*                                                                         *)
(* The wire is described unit by unit: it is the beginning of header and   *)
(* numbered bytes without end (IsData), or of a whole stream, trailer      *)
(* included (IsFinal).  The Reader stands at a place of the wire it was    *)
(* made from, and has the bytes before it.                                 *)
(***************************************************************************)
EXTENDS Zlib, SequenceTheorems, TLAPS

Units ==
  [k : {"hdr", "byte", "end"}, v : Int] \cup [k : {"sum"}, v : Seq(Int)]

\* The headers NewWriter makes.
Headers == {<<120, 1>>, <<120, 94>>, <<120, 156>>, <<120, 218>>}

\* Unit i of a stream that has no end yet, and of the stream of the bytes w.
DataUnit(i) == IF i <= 2 THEN Hdr(header[i]) ELSE Byte(i - 2)
FinalUnit(i, w) ==
  IF i <= Len(w) + 2 THEN DataUnit(i)
  ELSE IF i = Len(w) + 3 THEN End
  ELSE Sum(w)

IsData(u) == u \in Seq(Units) /\ \A i \in 1..Len(u) : u[i] = DataUnit(i)
IsFinal(u, w) ==
  /\ u \in Seq(Units)
  /\ Len(u) <= Len(w) + 5
  /\ \A i \in 1..Len(u) : u[i] = FinalUnit(i, w)

\* Numbers that count from n + 1 on.
Counts(s, n) == s \in Seq(Int) /\ \A i \in 1..Len(s) : s[i] = n + i

TypeOK ==
  /\ header \in Headers
  /\ err \in {"nil", "sink", "errClosed"}
  /\ dest \in {"open", "nil"}
  /\ room \in Nat
  /\ Counts(wrote, 0)
  /\ digest = wrote

\* What the destination has, and what is held back.
Sent ==
  /\ dest = "nil" => err # "nil"
  /\ ret # "panic"
  /\ err = "nil" => /\ IsData(wire) /\ Len(wire) >= 2
                    /\ Counts(kept, Len(wire) - 2)
                    /\ Len(wire) + Len(kept) = Len(wrote) + 2
  /\ IsData(wire) \/ IsFinal(wire, wrote)
  /\ ret = "nil" => IsData(wire) \/ (IsFinal(wire, wrote) /\ Len(wire) = Len(wrote) + 5)

\* A Reader that may go on has the bytes before the place where it stands.
At(u, k, r) ==
  /\ k + 2 <= Len(u)
  /\ \A j \in 1..k : u[j + 2].k = "byte" /\ r.digest[j] = u[j + 2].v
  /\ r.digest \in Seq(Int) /\ Len(r.digest) = k
  /\ r.in \in Seq(Units) /\ Len(r.in) = Len(u) - 2 - k
  /\ \A j \in 1..Len(r.in) : r.in[j] = u[j + 2 + k]

\* The whole stream is on the wire.
Whole == IsFinal(wire, wrote) /\ Len(wire) = Len(wrote) + 5

Made ==
  /\ rd = [in |-> rd.in, err |-> rd.err, digest |-> rd.digest, ret |-> rd.ret, from |-> rd.from]
  /\ rd.from \in Damages
  /\ rd.ret # "none"
  /\ rd.err \in {"nil", "unmade", "EOF", "UnexpectedEOF", "ErrChecksum", "Corrupt"}
  /\ rd.err \notin {"nil", "unmade"} => rd.ret = rd.err
  /\ rd.err \in {"nil", "unmade"} => rd.ret # "EOF"
  /\ rd.err = "nil" => /\ headerValid(rd.from[1].v, rd.from[2].v)
                       /\ At(rd.from, Len(rd.digest), rd)
  /\ rd.err = "EOF" => rd.from = wire /\ rd.digest = wrote
  /\ Whole /\ rd.from = wire => rd.err \in {"nil", "EOF", "Corrupt"}

Reading == rd = NoReader \/ Made

IInv == TypeOK /\ Sent /\ Reading
-----------------------------------------------------------------------------
(* Units and numbers.                                                      *)

\* The kinds of units.
LEMMA UnitTypes ==
  /\ \A v \in Int : Hdr(v) \in Units /\ Byte(v) \in Units
  /\ End \in Units
  /\ \A d \in Seq(Int) : Sum(d) \in Units
BY DEF Hdr, Byte, End, Sum, Units

\* Bytes turns numbers into units.
LEMMA BytesUnits ==
  ASSUME NEW s \in Seq(Int)
  PROVE  /\ Bytes(s) \in Seq(Units)
         /\ Len(Bytes(s)) = Len(s)
         /\ \A i \in 1..Len(s) : Bytes(s)[i] = Byte(s[i])
<1>1. Bytes(s) = [i \in 1..Len(s) |-> Byte(s[i])]
  BY DEF Bytes
<1>2. \A i \in 1..Len(s) : Byte(s[i]) \in Units
  BY UnitTypes
<1>3. QED
  BY <1>1, <1>2

\* The numbers that follow numbers.
LEMMA Counting ==
  ASSUME NEW s, NEW t, NEW n \in Int, Counts(s, n), Counts(t, n + Len(s))
  PROVE  Counts(s \o t, n) /\ Len(s \o t) = Len(s) + Len(t)
<1> DEFINE c == s \o t
<1>1. /\ s \in Seq(Int) /\ t \in Seq(Int) /\ Len(s) \in Nat /\ Len(t) \in Nat
      /\ \A i \in 1..Len(s) : s[i] = n + i
      /\ \A i \in 1..Len(t) : t[i] = n + Len(s) + i
  BY DEF Counts
<1>2. /\ c \in Seq(Int) /\ Len(c) = Len(s) + Len(t)
      /\ \A i \in 1..Len(s) + Len(t) : c[i] = IF i <= Len(s) THEN s[i] ELSE t[i - Len(s)]
  BY <1>1, ConcatProperties
<1> HIDE DEF c
<1>3. ASSUME NEW i \in 1..Len(c)
      PROVE  c[i] = n + i
  <2>1. i \in 1..(Len(s) + Len(t))
    BY <1>2
  <2>2. CASE i <= Len(s)
    <3>1. c[i] = s[i]
      BY <1>2, <2>1, <2>2
    <3>2. i \in 1..Len(s)
      BY <1>1, <2>1, <2>2
    <3>3. QED
      BY <1>1, <3>1, <3>2
  <2>3. CASE ~(i <= Len(s))
    <3>1. i - Len(s) \in 1..Len(t) /\ n + Len(s) + (i - Len(s)) = n + i
      BY <1>1, <2>1, <2>3
    <3>2. t[i - Len(s)] = n + i
      BY <1>1, <3>1
    <3>3. QED
      BY <1>2, <2>1, <2>3, <3>2
  <2>4. QED
    BY <2>2, <2>3
<1>4. QED
  BY <1>2, <1>3 DEF Counts, c

\* A part of numbers that count.
LEMMA PartCounts ==
  ASSUME NEW s, NEW n \in Int, NEW m \in Nat, Counts(s, n), m <= Len(s)
  PROVE  /\ Counts(SubSeq(s, 1, m), n) /\ Len(SubSeq(s, 1, m)) = m
         /\ Counts(SubSeq(s, m + 1, Len(s)), n + m)
         /\ Len(SubSeq(s, m + 1, Len(s))) = Len(s) - m
<1> DEFINE k == Len(s)
           a == SubSeq(s, 1, m)
           b == SubSeq(s, m + 1, k)
<1>1. /\ s \in Seq(Int) /\ k \in Nat /\ \A i \in 1..k : s[i] = n + i
      /\ \A i \in 1..k : s[i] \in Int
  BY DEF Counts
<1>2. m <= k
  OBVIOUS
<1> HIDE DEF k
<1>3. /\ a \in Seq(Int) /\ Len(a) = (IF 1 <= m THEN m - 1 + 1 ELSE 0)
      /\ \A i \in 1..(m - 1 + 1) : a[i] = s[1 + i - 1]
  <2>1. \A i \in 1..m : s[i] \in Int
    BY <1>1, <1>2
  <2>2. QED
    BY <2>1, SubSeqProperties
<1>4. /\ b \in Seq(Int) /\ Len(b) = (IF m + 1 <= k THEN k - (m + 1) + 1 ELSE 0)
      /\ \A i \in 1..(k - (m + 1) + 1) : b[i] = s[(m + 1) + i - 1]
  <2>1. \A i \in (m + 1)..k : s[i] \in Int
    BY <1>1
  <2>2. m + 1 \in Int /\ k \in Int
    BY <1>1
  <2>3. QED
    BY <2>1, <2>2, SubSeqProperties
<1> HIDE DEF a, b
<1>5. Len(a) = m /\ Len(b) = k - m
  BY <1>1, <1>2, <1>3, <1>4
<1>6. ASSUME NEW i \in 1..Len(a)
      PROVE  a[i] = n + i
  <2>1. i \in 1..(m - 1 + 1) /\ 1 + i - 1 = i /\ i \in 1..k
    BY <1>1, <1>2, <1>5
  <2>2. QED
    BY <1>1, <1>3, <2>1
<1>7. ASSUME NEW i \in 1..Len(b)
      PROVE  b[i] = (n + m) + i
  <2>1. i \in 1..(k - (m + 1) + 1) /\ (m + 1) + i - 1 = m + i /\ m + i \in 1..k
    BY <1>1, <1>2, <1>5
  <2>2. b[i] = s[m + i]
    BY <1>4, <2>1
  <2>3. s[m + i] = n + (m + i)
    BY <1>1, <2>1
  <2>4. n + (m + i) = (n + m) + i
    BY <2>1
  <2>5. QED
    BY <2>2, <2>3, <2>4
<1>8. QED
  BY <1>3, <1>4, <1>5, <1>6, <1>7 DEF Counts, a, b, k

\* What the destination takes of the units it is given.
LEMMA Taken ==
  ASSUME NEW u \in Seq(Units), room \in Nat
  PROVE  /\ taken(u) \in Seq(Units)
         /\ Len(taken(u)) <= Len(u) /\ Len(taken(u)) <= room
         /\ ~fails(u) => Len(taken(u)) = Len(u)
         /\ \A i \in 1..Len(taken(u)) : taken(u)[i] = u[i]
<1>1. CASE Len(u) <= room
  <2>1. taken(u) = u /\ Len(u) \in Nat
    BY <1>1 DEF taken
  <2>2. QED
    BY <1>1, <2>1
<1>2. CASE ~(Len(u) <= room)
  <2> DEFINE t == SubSeq(u, 1, room)
  <2>1. taken(u) = t
    BY <1>2 DEF taken
  <2>2. /\ t \in Seq(Units) /\ Len(t) = (IF 1 <= room THEN room - 1 + 1 ELSE 0)
        /\ \A i \in 1..(room - 1 + 1) : t[i] = u[1 + i - 1]
    <3>1. \A i \in 1..room : u[i] \in Units
      BY <1>2
    <3>2. QED
      BY <3>1, SubSeqProperties
  <2> HIDE DEF t
  <2>3. Len(t) = room
    BY <2>2
  <2>4. ASSUME NEW i \in 1..Len(t)
        PROVE  t[i] = u[i]
    <3>1. i \in 1..(room - 1 + 1) /\ 1 + i - 1 = i
      BY <2>3
    <3>2. QED
      BY <2>2, <3>1
  <2>5. fails(u)
    BY <1>2 DEF fails
  <2>6. QED
    BY <1>2, <2>1, <2>2, <2>3, <2>4, <2>5
<1>3. QED
  BY <1>1, <1>2
-----------------------------------------------------------------------------
(* The Writer.                                                             *)

LEMMA HeaderBytes ==
  ASSUME header \in Headers
  PROVE  /\ header[1] = 120 /\ header[2] \in {1, 94, 156, 218}
         /\ \A i \in 1..2 : Hdr(header[i]) \in Units
<1>1. header[1] = 120 /\ header[2] \in {1, 94, 156, 218}
  BY DEF Headers
<1>2. QED
  BY <1>1, UnitTypes

\* More bytes behind those on the wire.
LEMMA MoreData ==
  ASSUME NEW u, NEW t \in Seq(Units), IsData(u), Len(u) >= 2,
         \A i \in 1..Len(t) : t[i] = Byte(Len(u) - 2 + i)
  PROVE  IsData(u \o t) /\ Len(u \o t) = Len(u) + Len(t)
<1> DEFINE c == u \o t
           n == Len(u)
<1>1. u \in Seq(Units) /\ n \in Nat /\ Len(t) \in Nat /\ \A i \in 1..n : u[i] = DataUnit(i)
  BY DEF IsData
<1>2. /\ c \in Seq(Units) /\ Len(c) = n + Len(t)
      /\ \A i \in 1..n + Len(t) : c[i] = IF i <= n THEN u[i] ELSE t[i - n]
  BY <1>1, ConcatProperties
<1>3. n >= 2 /\ \A i \in 1..Len(t) : t[i] = Byte(n - 2 + i)
  OBVIOUS
<1> HIDE DEF c, n
<1>4. ASSUME NEW i \in 1..Len(c)
      PROVE  c[i] = DataUnit(i)
  <2>1. i \in 1..(n + Len(t))
    BY <1>2
  <2>2. CASE i <= n
    <3>1. c[i] = u[i] /\ i \in 1..n
      BY <1>1, <1>2, <2>1, <2>2
    <3>2. QED
      BY <1>1, <3>1
  <2>3. CASE ~(i <= n)
    <3>1. i - n \in 1..Len(t) /\ n - 2 + (i - n) = i - 2 /\ ~(i <= 2)
      BY <1>1, <1>3, <2>1, <2>3
    <3>2. t[i - n] = Byte(i - 2)
      BY <1>3, <3>1
    <3>3. QED
      BY <1>2, <2>1, <2>3, <3>1, <3>2 DEF DataUnit
  <2>4. QED
    BY <2>2, <2>3
<1>5. QED
  BY <1>2, <1>4 DEF IsData, c, n

\* The end of the stream behind them, as much as the destination takes.
LEMMA MoreFinal ==
  ASSUME NEW u, NEW t \in Seq(Units), NEW w, NEW k \in Nat,
         IsData(u), Len(u) >= 2, Len(w) \in Nat, Len(u) + k = Len(w) + 2, Len(t) <= k + 3,
         \A i \in 1..Len(t) : t[i] = IF i <= k THEN Byte(Len(u) - 2 + i)
                                     ELSE IF i = k + 1 THEN End ELSE Sum(w)
  PROVE  IsFinal(u \o t, w) /\ Len(u \o t) = Len(u) + Len(t)
<1> DEFINE c == u \o t
           n == Len(u)
           m == Len(w)
<1>1. u \in Seq(Units) /\ n \in Nat /\ Len(t) \in Nat /\ \A i \in 1..n : u[i] = DataUnit(i)
  BY DEF IsData
<1>2. /\ c \in Seq(Units) /\ Len(c) = n + Len(t)
      /\ \A i \in 1..n + Len(t) : c[i] = IF i <= n THEN u[i] ELSE t[i - n]
  BY <1>1, ConcatProperties
<1>3. /\ n >= 2 /\ m \in Nat /\ n + k = m + 2 /\ Len(t) <= k + 3
      /\ \A i \in 1..Len(t) : t[i] = IF i <= k THEN Byte(n - 2 + i)
                                     ELSE IF i = k + 1 THEN End ELSE Sum(w)
  OBVIOUS
<1> HIDE DEF c, n, m
<1>4. ASSUME NEW i \in 1..Len(c)
      PROVE  c[i] = IF i <= m + 2 THEN DataUnit(i)
                    ELSE IF i = m + 3 THEN End ELSE Sum(w)
  <2>1. i \in 1..(n + Len(t))
    BY <1>2
  <2>2. CASE i <= n
    <3>1. c[i] = u[i] /\ i \in 1..n /\ i <= m + 2
      BY <1>1, <1>2, <1>3, <2>1, <2>2
    <3>2. QED
      BY <1>1, <3>1
  <2>3. CASE ~(i <= n)
    <3>1. c[i] = t[i - n]
      BY <1>2, <2>1, <2>3
    <3>2. /\ i - n \in 1..Len(t) /\ n - 2 + (i - n) = i - 2 /\ ~(i <= 2)
          /\ (i - n <= k <=> i <= m + 2) /\ (i - n = k + 1 <=> i = m + 3)
      BY <1>1, <1>3, <2>1, <2>3
    <3>3. t[i - n] = IF i <= m + 2 THEN Byte(i - 2)
                     ELSE IF i = m + 3 THEN End ELSE Sum(w)
      BY <1>3, <3>2
    <3>4. QED
      BY <3>1, <3>2, <3>3 DEF DataUnit
  <2>4. QED
    BY <2>2, <2>3
<1>5. Len(c) <= m + 5
  BY <1>1, <1>2, <1>3, SMTT(40)
<1>6. QED
  BY <1>2, <1>4, <1>5 DEF IsFinal, FinalUnit, c, n, m

\* What is on the wire, seen from the state after a step of the same Writer.
LEMMA SameHeader ==
  ASSUME header' = header
  PROVE  /\ IsData(wire)' <=> IsData(wire')
         /\ IsFinal(wire, wrote)' <=> IsFinal(wire', wrote')
BY DEF IsData, IsFinal, FinalUnit, DataUnit

\* No bytes count from anywhere.
LEMMA NoBytes ==
  ASSUME NEW n \in Int
  PROVE  Counts(<< >>, n) /\ Len(<< >>) = 0
BY DEF Counts

\* The two bytes of the header are the beginning of a stream.
LEMMA HeaderData ==
  ASSUME header \in Headers
  PROVE  /\ <<Hdr(header[1]), Hdr(header[2])>> \in Seq(Units)
         /\ IsData(<<Hdr(header[1]), Hdr(header[2])>>)
         /\ Len(<<Hdr(header[1]), Hdr(header[2])>>) = 2
<1> DEFINE a == Hdr(header[1])
           b == Hdr(header[2])
<1>1. a \in Units /\ b \in Units
  BY HeaderBytes
<1>2. DataUnit(1) = a /\ DataUnit(2) = b
  BY DEF DataUnit
<1> HIDE DEF a, b
<1>3. <<a, b>> \in Seq(Units) /\ Len(<<a, b>>) = 2 /\ <<a, b>>[1] = a /\ <<a, b>>[2] = b
  BY <1>1
<1>4. \A i \in 1..2 : i = 1 \/ i = 2
  OBVIOUS
<1>5. \A i \in 1..2 : <<a, b>>[i] = DataUnit(i)
  BY <1>2, <1>3, <1>4
<1>6. IsData(<<a, b>>)
  BY <1>3, <1>5 DEF IsData
<1>7. QED
  BY <1>3, <1>6 DEF a, b

\* NewWriter's header is one of the four.
LEMMA HeaderMade ==
  ASSUME NEW level
  PROVE  headerOf(level) \in Headers
<1>1. flevel(level) \in {0, 1, 2, 3}
  BY DEF flevel
<1>2. /\ fcheck(0 * 64) = 1 /\ fcheck(1 * 64) = 30
      /\ fcheck(2 * 64) = 28 /\ fcheck(3 * 64) = 26
  BY DEF fcheck
<1>3. /\ (0 * 64 + 1) % 256 = 1 /\ (1 * 64 + 30) % 256 = 94
      /\ (2 * 64 + 28) % 256 = 156 /\ (3 * 64 + 26) % 256 = 218
  OBVIOUS
<1>4. headerOf(level) = <<120, (flevel(level) * 64 + fcheck(flevel(level) * 64)) % 256>>
  BY DEF headerOf
<1>5. CASE flevel(level) = 0
  BY <1>2, <1>3, <1>4, <1>5 DEF Headers
<1>6. CASE flevel(level) = 1
  BY <1>2, <1>3, <1>4, <1>6 DEF Headers
<1>7. CASE flevel(level) = 2
  BY <1>2, <1>3, <1>4, <1>7 DEF Headers
<1>8. CASE flevel(level) = 3
  BY <1>2, <1>3, <1>4, <1>8 DEF Headers
<1>9. QED
  BY <1>1, <1>5, <1>6, <1>7, <1>8

\* A new Writer has sent its header.
LEMMA InitInv == Init => IInv
<1> SUFFICES ASSUME Init PROVE IInv
  OBVIOUS
<1>1. header \in Headers
  BY HeaderMade DEF Init
<1>2. room \in Nat
  BY ZlibAssumption DEF Init
<1>3. IsData(wire) /\ Len(wire) = 2
  BY <1>1, HeaderData DEF Init
<1>4. wrote = << >> /\ kept = << >> /\ digest = << >> /\ err = "nil" /\ dest = "open" /\ ret = "none"
      /\ rd = NoReader
  BY DEF Init
<1>5. Counts(wrote, 0) /\ Len(wrote) = 0 /\ Counts(kept, Len(wire) - 2) /\ Len(kept) = 0
  BY <1>3, <1>4, NoBytes
<1>6. TypeOK
  BY <1>1, <1>2, <1>4, <1>5 DEF TypeOK
<1>7. Sent
  BY <1>3, <1>4, <1>5 DEF Sent
<1>8. QED
  BY <1>4, <1>6, <1>7 DEF IInv, Reading

\* Reset starts over with the header.
LEMMA ResetInv ==
  ASSUME IInv, NEW space \in Rooms, Reset(space)
  PROVE  IInv'
<1> DEFINE u == <<Hdr(header[1]), Hdr(header[2])>>
           m == IF space < 2 THEN space ELSE 2
           t == SubSeq(u, 1, m)
<1>1. header \in Headers /\ header' = header /\ space \in Nat
  BY ZlibAssumption DEF IInv, TypeOK, Reset
<1>2. u \in Seq(Units) /\ IsData(u) /\ Len(u) = 2
  BY <1>1, HeaderData
<1>3. /\ wire' = t /\ err' = (IF space < 2 THEN "sink" ELSE "nil")
      /\ room' = space - Len(wire')
      /\ digest' = << >> /\ kept' = << >> /\ dest' = "open" /\ wrote' = << >> /\ ret' = "none"
      /\ rd' = NoReader
  BY DEF Reset
<1> HIDE DEF u
<1>4. m \in 0..2 /\ m <= space /\ (~(space < 2) => m = 2)
  BY <1>1
<1> HIDE DEF m
<1>5. /\ t \in Seq(Units) /\ Len(t) = m
      /\ \A i \in 1..m : t[i] = u[i]
  <2>1. \A i \in 1..m : u[i] \in Units
    BY <1>2, <1>4
  <2>2. /\ t \in Seq(Units) /\ Len(t) = (IF 1 <= m THEN m - 1 + 1 ELSE 0)
        /\ \A i \in 1..(m - 1 + 1) : t[i] = u[1 + i - 1]
    BY <1>4, <2>1, SubSeqProperties
  <2> HIDE DEF t
  <2>3. QED
    BY <1>4, <2>2
<1> HIDE DEF t
<1>6. IsData(t)
  BY <1>2, <1>4, <1>5 DEF IsData
<1>7. IsData(wire)'
  BY <1>1, <1>3, <1>6, SameHeader
<1>8. room' \in Nat
  BY <1>1, <1>3, <1>4, <1>5
<1>9. Counts(<< >>, 0) /\ Len(<< >>) = 0
  BY NoBytes
<1>10. TypeOK'
  BY <1>1, <1>3, <1>8, <1>9 DEF TypeOK, Counts
<1>11. err' = "nil" => Len(wire') = 2
  BY <1>3, <1>4, <1>5
<1>12. Sent'
  <2>1. err' = "nil" => Counts(kept', Len(wire') - 2) /\ Len(wire') >= 2
                        /\ Len(wire') + Len(kept') = Len(wrote') + 2
    BY <1>3, <1>9, <1>11
  <2>2. QED
    BY <1>3, <1>7, <2>1 DEF Sent, Counts
<1>13. QED
  BY <1>3, <1>10, <1>12 DEF IInv, Reading, NoReader

\* Write, with all it may put out.
LEMMA WriteInv ==
  ASSUME IInv, NEW n \in Writes, Write(n)
  PROVE  IInv'
<1>1. /\ header \in Headers /\ err \in {"nil", "sink", "errClosed"} /\ dest \in {"open", "nil"}
      /\ room \in Nat /\ Counts(wrote, 0) /\ digest = wrote
  BY DEF IInv, TypeOK
<1>2. /\ dest = "nil" => err # "nil"
      /\ ret # "panic"
      /\ err = "nil" => /\ IsData(wire) /\ Len(wire) >= 2
                        /\ Counts(kept, Len(wire) - 2)
                        /\ Len(wire) + Len(kept) = Len(wrote) + 2
      /\ IsData(wire) \/ IsFinal(wire, wrote)
      /\ ret = "nil" => IsData(wire) \/ (IsFinal(wire, wrote) /\ Len(wire) = Len(wrote) + 5)
  BY DEF IInv, Sent
<1>3. header' = header /\ dest' = dest /\ rd = NoReader /\ rd' = NoReader /\ n \in Nat
  BY ZlibAssumption DEF Write
<1>4. Reading'
  BY <1>3 DEF Reading, NoReader
<1>5. CASE err # "nil"
  <2>1. /\ ret' = err /\ err' = err /\ digest' = digest /\ kept' = kept
        /\ wrote' = wrote /\ wire' = wire /\ room' = room
    BY <1>5 DEF Write
  <2>2. TypeOK'
    BY <1>1, <1>3, <2>1 DEF TypeOK, Counts
  <2>3. IsData(wire)' \/ IsFinal(wire, wrote)'
    BY <1>2, <1>3, <2>1, SameHeader
  <2>4. ret' # "panic" /\ ret' # "nil" /\ err' # "nil"
    BY <1>1, <1>5, <2>1
  <2>5. Sent'
    BY <2>3, <2>4 DEF Sent
  <2>6. QED
    BY <1>4, <2>2, <2>5 DEF IInv
<1>6. CASE err = "nil"
  <2> DEFINE p == [i \in 1..n |-> Len(wrote) + i]
             all == kept \o p
             x == Len(wire) - 2
  <2>1. dest = "open"
    BY <1>1, <1>2, <1>6
  <2>2. IsData(wire) /\ Len(wire) >= 2 /\ Counts(kept, x) /\ Len(wire) + Len(kept) = Len(wrote) + 2
    BY <1>2, <1>6
  <2>3. Len(wire) \in Nat /\ Len(kept) \in Nat /\ Len(wrote) \in Nat
    BY <1>1, <2>2 DEF IsData, Counts
  <2>4. PICK out \in 0..Len(all) :
          LET units == Bytes(SubSeq(all, 1, out))
          IN /\ wire' = wire \o taken(units)
             /\ room' = room - Len(taken(units))
             /\ err' = IF fails(units) THEN "sink" ELSE "nil"
             /\ ret' = err'
             /\ kept' = SubSeq(all, out + 1, Len(all))
             /\ digest' = IF fails(units) THEN digest ELSE digest \o p
             /\ wrote' = IF fails(units) THEN wrote ELSE wrote \o p
    BY <1>6, <2>1, Zenon DEF Write
  <2> DEFINE s == SubSeq(all, 1, out)
             r == SubSeq(all, out + 1, Len(all))
             units == Bytes(s)
             t == taken(units)
  <2>5. /\ wire' = wire \o t /\ room' = room - Len(t)
        /\ err' = (IF fails(units) THEN "sink" ELSE "nil")
        /\ ret' = err' /\ kept' = r
        /\ digest' = (IF fails(units) THEN digest ELSE digest \o p)
        /\ wrote' = (IF fails(units) THEN wrote ELSE wrote \o p)
    BY <2>4
  <2>6. Counts(p, Len(wrote)) /\ Len(p) = n
    BY <1>3, <2>3 DEF Counts
  <2> HIDE DEF p
  <2>7. x \in Int /\ x + Len(kept) = Len(wrote) /\ 0 + Len(wrote) = Len(wrote)
    BY <2>2, <2>3
  <2> HIDE DEF x
  <2>8. Counts(all, x) /\ Len(all) = Len(kept) + n
    <3>1. Counts(p, x + Len(kept))
      BY <2>6, <2>7
    <3>2. QED
      BY <2>2, <2>6, <2>7, <3>1, Counting
  <2>9. Counts(wrote \o p, 0) /\ Len(wrote \o p) = Len(wrote) + n
    <3>1. Counts(p, 0 + Len(wrote))
      BY <2>6, <2>7
    <3>2. QED
      BY <1>1, <2>6, <3>1, Counting
  <2> HIDE DEF all
  <2>10. out \in Nat /\ out <= Len(all)
    BY <1>3, <2>3, <2>8
  <2>11. /\ Counts(s, x) /\ Len(s) = out
         /\ Counts(r, x + out) /\ Len(r) = Len(all) - out
    BY <2>7, <2>8, <2>10, PartCounts
  <2> HIDE DEF s, r
  <2>12. s \in Seq(Int) /\ \A i \in 1..Len(s) : s[i] = x + i
    BY <2>11 DEF Counts
  <2>13. units \in Seq(Units) /\ Len(units) = out /\ \A i \in 1..Len(s) : units[i] = Byte(s[i])
    BY <2>11, <2>12, BytesUnits
  <2> HIDE DEF units
  <2>14. /\ t \in Seq(Units) /\ Len(t) <= Len(units) /\ Len(t) <= room
         /\ ~fails(units) => Len(t) = Len(units)
         /\ \A i \in 1..Len(t) : t[i] = units[i]
    BY <1>1, <2>13, Taken
  <2> HIDE DEF t
  <2>15. Len(t) \in Nat
    BY <2>14
  <2>16. \A i \in 1..Len(t) : t[i] = Byte(Len(wire) - 2 + i)
    <3>1. ASSUME NEW i \in 1..Len(t) PROVE t[i] = Byte(Len(wire) - 2 + i)
      <4>1. i \in 1..Len(s)
        BY <2>10, <2>11, <2>13, <2>14, <2>15
      <4>2. t[i] = Byte(s[i]) /\ s[i] = x + i
        BY <2>12, <2>13, <2>14, <4>1
      <4>3. QED
        BY <4>2 DEF x
    <3>2. QED
      BY <3>1
  <2>17. IsData(wire \o t) /\ Len(wire \o t) = Len(wire) + Len(t)
    BY <2>2, <2>14, <2>16, MoreData
  <2>18. IsData(wire)'
    <3>1. IsData(wire')
      BY <2>5, <2>17
    <3>2. QED
      BY <1>3, <3>1, SameHeader
  <2>19. room' \in Nat
    BY <1>1, <2>5, <2>14, <2>15
  <2>20. Counts(wrote', 0) /\ digest' = wrote' /\ err' \in {"nil", "sink"}
    BY <1>1, <2>5, <2>9
  <2>21. TypeOK'
    BY <1>1, <1>3, <2>19, <2>20 DEF TypeOK, Counts
  <2>22. ASSUME err' = "nil"
         PROVE  /\ Len(wire') >= 2 /\ Counts(kept', Len(wire') - 2)
                /\ Len(wire') + Len(kept') = Len(wrote') + 2
    <3>1. ~fails(units)
      BY <2>5, <2>22
    <3>2. Len(t) = out /\ wrote' = wrote \o p
      BY <2>5, <2>13, <2>14, <3>1
    <3>3. Len(wire') = Len(wire) + out
      BY <2>5, <2>17, <3>2
    <3>4. Len(wire') - 2 = x + out
      BY <2>3, <2>10, <3>3 DEF x
    <3>5. Len(kept') = Len(kept) + n - out
      BY <1>3, <2>3, <2>5, <2>8, <2>10, <2>11
    <3>6. Len(wrote') = Len(wrote) + n
      BY <2>9, <3>2
    <3>7. Len(wire') >= 2 /\ Len(wire') + Len(kept') = Len(wrote') + 2
      BY <1>3, <2>2, <2>3, <2>10, <3>3, <3>5, <3>6, SMTT(40)
    <3>8. Counts(kept', Len(wire') - 2)
      BY <2>5, <2>11, <3>4
    <3>9. QED
      BY <3>7, <3>8
  <2>23. ret' = err' /\ dest' # "nil"
    BY <1>3, <2>1, <2>5
  <2>24. Sent'
    BY <2>18, <2>20, <2>22, <2>23 DEF Sent, Counts
  <2>25. QED
    BY <1>4, <2>21, <2>24 DEF IInv
<1>7. QED
  BY <1>5, <1>6

\* What Close gives to the destination.
LEMMA StreamUnits ==
  ASSUME NEW s \in Seq(Int), NEW d \in Seq(Int)
  PROVE  LET u == Append(Bytes(s), End) \o <<Sum(d), Sum(d)>>
         IN /\ u \in Seq(Units) /\ Len(u) = Len(s) + 3
            /\ \A i \in 1..Len(u) : u[i] = IF i <= Len(s) THEN Byte(s[i])
                                           ELSE IF i = Len(s) + 1 THEN End ELSE Sum(d)
<1> DEFINE b == Bytes(s)
           a == Append(b, End)
           z == <<Sum(d), Sum(d)>>
           u == a \o z
           n == Len(s)
<1>1. b \in Seq(Units) /\ Len(b) = n /\ n \in Nat /\ \A i \in 1..n : b[i] = Byte(s[i])
  BY BytesUnits
<1>2. End \in Units /\ Sum(d) \in Units
  BY UnitTypes
<1> HIDE DEF b, n
<1>3. a \in Seq(Units) /\ Len(a) = n + 1 /\ a[n + 1] = End /\ \A i \in 1..n : a[i] = b[i]
  BY <1>1, <1>2
<1>4. z \in Seq(Units) /\ Len(z) = 2 /\ \A i \in 1..2 : z[i] = Sum(d)
  BY <1>2
<1> HIDE DEF a, z
<1>5. /\ u \in Seq(Units) /\ Len(u) = (n + 1) + 2
      /\ \A i \in 1..(n + 1) + 2 : u[i] = IF i <= n + 1 THEN a[i] ELSE z[i - (n + 1)]
  <2>1. /\ u \in Seq(Units) /\ Len(u) = Len(a) + Len(z)
        /\ \A i \in 1..Len(a) + Len(z) : u[i] = IF i <= Len(a) THEN a[i] ELSE z[i - Len(a)]
    BY <1>3, <1>4, ConcatProperties
  <2> HIDE DEF u
  <2>2. Len(a) = n + 1 /\ Len(z) = 2
    BY <1>3, <1>4
  <2>3. QED
    BY <2>1, <2>2
<1> HIDE DEF u
<1>6. ASSUME NEW i \in 1..Len(u)
      PROVE  u[i] = IF i <= n THEN Byte(s[i]) ELSE IF i = n + 1 THEN End ELSE Sum(d)
  <2>1. i \in 1..(n + 1) + 2
    BY <1>5
  <2>2. CASE i <= n
    <3>1. i \in 1..n /\ i <= n + 1
      BY <1>1, <2>1, <2>2
    <3>2. QED
      BY <1>1, <1>3, <1>5, <2>1, <2>2, <3>1
  <2>3. CASE i = n + 1
    <3>1. i <= n + 1 /\ ~(i <= n)
      BY <1>1, <2>3
    <3>2. u[i] = a[i] /\ a[i] = End
      BY <1>3, <1>5, <2>1, <2>3, <3>1
    <3>3. QED
      BY <2>3, <3>1, <3>2
  <2>4. CASE ~(i <= n) /\ i # n + 1
    <3>1. ~(i <= n + 1) /\ i - (n + 1) \in 1..2
      BY <1>1, <2>1, <2>4
    <3>2. QED
      BY <1>4, <1>5, <2>1, <2>4, <3>1
  <2>5. QED
    BY <2>2, <2>3, <2>4
<1>7. Len(u) = n + 3
  BY <1>1, <1>5
<1>8. QED
  BY <1>5, <1>6, <1>7 DEF u, a, b, z, n

\* Close, as far as the destination takes it.
LEMMA CloseInv ==
  ASSUME IInv, Close
  PROVE  IInv'
<1>1. /\ header \in Headers /\ err \in {"nil", "sink", "errClosed"} /\ dest \in {"open", "nil"}
      /\ room \in Nat /\ Counts(wrote, 0) /\ digest = wrote
  BY DEF IInv, TypeOK
<1>2. /\ dest = "nil" => err # "nil"
      /\ ret # "panic"
      /\ err = "nil" => /\ IsData(wire) /\ Len(wire) >= 2
                        /\ Counts(kept, Len(wire) - 2)
                        /\ Len(wire) + Len(kept) = Len(wrote) + 2
      /\ IsData(wire) \/ IsFinal(wire, wrote)
      /\ ret = "nil" => IsData(wire) \/ (IsFinal(wire, wrote) /\ Len(wire) = Len(wrote) + 5)
  BY DEF IInv, Sent
<1>3. header' = header /\ digest' = digest /\ wrote' = wrote /\ rd = NoReader /\ rd' = NoReader
  BY DEF Close
<1>4. Reading'
  BY <1>3 DEF Reading, NoReader
<1>5. CASE err # "nil"
  <2>1. ret' = err /\ err' = err /\ dest' = dest /\ kept' = kept /\ wire' = wire /\ room' = room
    BY <1>5 DEF Close
  <2>2. TypeOK'
    BY <1>1, <1>3, <2>1 DEF TypeOK, Counts
  <2>3. IsData(wire)' \/ IsFinal(wire, wrote)'
    BY <1>2, <1>3, <2>1, SameHeader
  <2>4. ret' # "panic" /\ ret' # "nil" /\ err' # "nil"
    BY <1>1, <1>5, <2>1
  <2>5. Sent'
    BY <2>3, <2>4 DEF Sent
  <2>6. QED
    BY <1>4, <2>2, <2>5 DEF IInv
<1>6. CASE err = "nil"
  <2> DEFINE stream == Append(Bytes(kept), End)
             units == stream \o <<Sum(wrote), Sum(wrote)>>
             t == taken(units)
             n == Len(kept)
  <2>1. dest = "open"
    BY <1>1, <1>2, <1>6
  <2>2. /\ IsData(wire) /\ Len(wire) >= 2 /\ Counts(kept, Len(wire) - 2)
        /\ Len(wire) + n = Len(wrote) + 2
    BY <1>2, <1>6
  <2>3. /\ wire' = wire \o t /\ room' = room - Len(t)
        /\ dest' = (IF fails(stream) THEN dest ELSE "nil")
        /\ kept' = << >>
        /\ err' = (IF fails(units) THEN "sink" ELSE closeDone)
        /\ ret' = (IF fails(units) THEN "sink" ELSE "nil")
    BY <1>1, <1>6, <2>1 DEF Close
  <2>4. /\ kept \in Seq(Int) /\ wrote \in Seq(Int)
        /\ \A i \in 1..n : kept[i] = Len(wire) - 2 + i
    BY <1>1, <2>2 DEF Counts
  <2>5. n \in Nat /\ Len(wrote) \in Nat /\ Len(wire) \in Nat
    BY <2>2, <2>4 DEF IsData
  <2>6. /\ units \in Seq(Units) /\ Len(units) = n + 3
        /\ \A i \in 1..Len(units) : units[i] = IF i <= n THEN Byte(kept[i])
                                               ELSE IF i = n + 1 THEN End ELSE Sum(wrote)
    BY <2>4, StreamUnits
  <2> HIDE DEF stream, units, n
  <2>7. /\ t \in Seq(Units) /\ Len(t) <= Len(units) /\ Len(t) <= room
        /\ ~fails(units) => Len(t) = Len(units)
        /\ \A i \in 1..Len(t) : t[i] = units[i]
    BY <1>1, <2>6, Taken
  <2> HIDE DEF t
  <2>8. Len(t) \in Nat /\ Len(t) <= n + 3
    BY <2>6, <2>7
  <2>9. ASSUME NEW i \in 1..Len(t)
        PROVE  t[i] = IF i <= n THEN Byte(Len(wire) - 2 + i)
                      ELSE IF i = n + 1 THEN End ELSE Sum(wrote)
    <3>1. i \in 1..Len(units)
      BY <2>5, <2>6, <2>8
    <3>2. t[i] = IF i <= n THEN Byte(kept[i])
                 ELSE IF i = n + 1 THEN End ELSE Sum(wrote)
      BY <2>6, <2>7, <3>1
    <3>3. i <= n => kept[i] = Len(wire) - 2 + i
      BY <2>4, <2>5
    <3>4. QED
      BY <3>2, <3>3
  <2>10. Len(wire) + n = Len(wrote) + 2 /\ Len(wire) >= 2
    BY <2>2
  <2>11. IsFinal(wire \o t, wrote) /\ Len(wire \o t) = Len(wire) + Len(t)
    BY <2>2, <2>5, <2>7, <2>8, <2>9, <2>10, MoreFinal
  <2>12. IsFinal(wire, wrote)'
    <3>1. IsFinal(wire', wrote')
      BY <1>3, <2>3, <2>11
    <3>2. QED
      BY <1>3, <3>1, SameHeader
  <2>13. room' \in Nat
    BY <1>1, <2>3, <2>7, <2>8
  <2>14. err' \in {"sink", "errClosed"} /\ dest' \in {"open", "nil"} /\ ret' # "panic"
    BY <2>1, <2>3 DEF closeDone
  <2>15. TypeOK'
    BY <1>1, <1>3, <2>13, <2>14 DEF TypeOK, Counts
  <2>16. ret' = "nil" => Len(wire') = Len(wrote') + 5
    <3>1. SUFFICES ASSUME ret' = "nil" PROVE Len(wire') = Len(wrote') + 5
      OBVIOUS
    <3>2. ~fails(units)
      BY <2>3, <3>1
    <3>3. Len(t) = n + 3
      BY <2>6, <2>7, <3>2
    <3>4. Len(wire') = Len(wire) + (n + 3)
      BY <2>3, <2>11, <3>3
    <3>5. QED
      BY <1>3, <2>5, <2>10, <3>4
  <2>17. Sent'
    BY <2>12, <2>14, <2>16 DEF Sent
  <2>18. QED
    BY <1>4, <2>15, <2>17 DEF IInv
<1>7. QED
  BY <1>5, <1>6
-----------------------------------------------------------------------------
(* What a Reader is given.                                                 *)

\* The kind of each unit of a stream.
LEMMA UnitKinds ==
  ASSUME NEW i \in Nat, NEW w, Len(w) \in Nat
  PROVE  /\ DataUnit(i).k = IF i <= 2 THEN "hdr" ELSE "byte"
         /\ FinalUnit(i, w).k = IF i <= 2 THEN "hdr"
                                ELSE IF i <= Len(w) + 2 THEN "byte"
                                ELSE IF i = Len(w) + 3 THEN "end" ELSE "sum"
<1>1. DataUnit(i).k = IF i <= 2 THEN "hdr" ELSE "byte"
  BY DEF DataUnit, Hdr, Byte
<1>2. CASE i <= Len(w) + 2
  BY <1>1, <1>2 DEF FinalUnit
<1>3. CASE ~(i <= Len(w) + 2)
  <2>1. ~(i <= 2)
    BY <1>3
  <2>2. FinalUnit(i, w) = IF i = Len(w) + 3 THEN End ELSE Sum(w)
    BY <1>3 DEF FinalUnit
  <2>3. End.k = "end" /\ Sum(w).k = "sum"
    BY DEF End, Sum
  <2>4. QED
    BY <1>1, <1>3, <2>1, <2>2, <2>3
<1>4. QED
  BY <1>1, <1>2, <1>3

\* Damage keeps the kind of a unit.
LEMMA DamagedUnit ==
  ASSUME NEW u \in Units
  PROVE  Damaged(u) \in Units /\ Damaged(u).k = u.k
<1>1. CASE u \in [k : {"hdr", "byte", "end"}, v : Int]
  <2>1. PICK a \in {"hdr", "byte", "end"}, x \in Int : u = [k |-> a, v |-> x]
    BY <1>1
  <2>2. CASE a = "hdr"
    <3>1. Damaged(u) = [k |-> "hdr", v |-> (x + 1) % 256]
      BY <2>1, <2>2 DEF Damaged
    <3>2. (x + 1) % 256 \in Int
      OBVIOUS
    <3>3. QED
      BY <2>1, <2>2, <3>1, <3>2 DEF Units
  <2>3. CASE a = "byte"
    <3>1. Damaged(u) = [k |-> "byte", v |-> -x]
      BY <2>1, <2>3 DEF Damaged
    <3>2. QED
      BY <2>1, <2>3, <3>1 DEF Units
  <2>4. CASE a = "end"
    <3>1. Damaged(u) = u
      BY <2>1, <2>4 DEF Damaged
    <3>2. QED
      BY <3>1
  <2>5. QED
    BY <2>1, <2>2, <2>3, <2>4
<1>2. CASE u \in [k : {"sum"}, v : Seq(Int)]
  <2>1. PICK x \in Seq(Int) : u = [k |-> "sum", v |-> x]
    BY <1>2
  <2>2. Damaged(u) = [k |-> "sum", v |-> Append(x, 0)]
    BY <2>1 DEF Damaged
  <2>3. Append(x, 0) \in Seq(Int)
    BY <2>1
  <2>4. QED
    BY <2>1, <2>2, <2>3 DEF Units
<1>3. QED
  BY <1>1, <1>2 DEF Units

\* The Reader's wire against the Writer's: no longer, unit by unit the same
\* or damaged.
LEMMA Shape ==
  ASSUME wire \in Seq(Units), NEW u \in Damages
  PROVE  /\ u \in Seq(Units) /\ Len(u) <= Len(wire)
         /\ \A i \in 1..Len(u) :
              u[i].k = wire[i].k /\ (u[i] = wire[i] \/ u[i] = Damaged(wire[i]))
<1>1. Len(wire) \in Nat /\ DOMAIN wire = 1..Len(wire) /\ \A i \in 1..Len(wire) : wire[i] \in Units
  OBVIOUS
<1>2. CASE u = wire
  BY <1>1, <1>2
<1>3. CASE u \in {SubSeq(wire, 1, k) : k \in 0..Len(wire)}
  <2>1. PICK k \in 0..Len(wire) : u = SubSeq(wire, 1, k)
    BY <1>3
  <2>2. /\ u \in Seq(Units) /\ Len(u) = (IF 1 <= k THEN k - 1 + 1 ELSE 0)
        /\ \A i \in 1..(k - 1 + 1) : u[i] = wire[1 + i - 1]
    <3>1. \A i \in 1..k : wire[i] \in Units
      BY <1>1, <2>1
    <3>2. 1 \in Int /\ k \in Int
      BY <2>1
    <3>3. QED
      BY <2>1, <3>1, <3>2, SubSeqProperties
  <2>3. Len(u) = k
    BY <2>1, <2>2
  <2>4. ASSUME NEW i \in 1..Len(u) PROVE u[i] = wire[i]
    <3>1. i \in 1..(k - 1 + 1) /\ 1 + i - 1 = i
      BY <2>1, <2>3
    <3>2. QED
      BY <2>2, <3>1
  <2>5. QED
    BY <2>1, <2>2, <2>3, <2>4
<1>4. CASE u \in {[wire EXCEPT ![i] = Damaged(wire[i])] : i \in DOMAIN wire}
  <2>1. PICK x \in 1..Len(wire) : u = [wire EXCEPT ![x] = Damaged(wire[x])]
    BY <1>1, <1>4
  <2>2. u = [i \in 1..Len(wire) |-> IF i = x THEN Damaged(wire[x]) ELSE wire[i]]
    BY <1>1, <2>1
  <2>3. \A i \in 1..Len(wire) : Damaged(wire[i]) \in Units /\ Damaged(wire[i]).k = wire[i].k
    BY <1>1, DamagedUnit
  <2>4. u \in Seq(Units) /\ Len(u) = Len(wire)
    BY <1>1, <2>2, <2>3
  <2>5. \A i \in 1..Len(u) : u[i] = wire[i] \/ u[i] = Damaged(wire[i])
    BY <2>2, <2>4
  <2>6. \A i \in 1..Len(u) : u[i].k = wire[i].k
    BY <2>3, <2>4, <2>5
  <2>7. QED
    BY <1>1, <2>4, <2>5, <2>6
<1>5. QED
  BY <1>2, <1>3, <1>4 DEF Damages

\* A wire that is the same unit by unit is the wire.
LEMMA SameWire ==
  ASSUME NEW u \in Seq(Units), wire \in Seq(Units), Len(u) = Len(wire),
         \A i \in 1..Len(u) : u[i] = wire[i]
  PROVE  u = wire
BY SeqEqual

\* NewReader accepts the headers that the Writer makes, and neither of them
\* with one byte changed.
LEMMA ValidHeaders ==
  ASSUME header \in Headers
  PROVE  /\ headerValid(header[1], header[2])
         /\ \A b : ~headerValid((header[1] + 1) % 256, b)
         /\ ~headerValid(header[1], (header[2] + 1) % 256)
<1>1. header[1] = 120 /\ header[2] \in {1, 94, 156, 218}
  BY HeaderBytes
<1>2. (120 + 1) % 256 = 121 /\ 121 % 16 = 9 /\ 120 % 16 = 8 /\ 120 \div 16 = 7
  OBVIOUS
<1>3. \A b : ~headerValid((header[1] + 1) % 256, b)
  BY <1>1, <1>2 DEF headerValid
<1>4. /\ (120 * 256 + 1) % 31 = 0 /\ (1 \div 32) % 2 = 0
      /\ (120 * 256 + 94) % 31 = 0 /\ (94 \div 32) % 2 = 0
      /\ (120 * 256 + 156) % 31 = 0 /\ (156 \div 32) % 2 = 0
      /\ (120 * 256 + 218) % 31 = 0 /\ (218 \div 32) % 2 = 0
  OBVIOUS
<1>5. headerValid(header[1], header[2])
  BY <1>1, <1>2, <1>4 DEF headerValid
<1>6. /\ (120 * 256 + ((1 + 1) % 256)) % 31 # 0
      /\ (120 * 256 + ((94 + 1) % 256)) % 31 # 0
      /\ (120 * 256 + ((156 + 1) % 256)) % 31 # 0
      /\ (120 * 256 + ((218 + 1) % 256)) % 31 # 0
  OBVIOUS
<1>7. ~headerValid(header[1], (header[2] + 1) % 256)
  BY <1>1, <1>6 DEF headerValid
<1>8. QED
  BY <1>3, <1>5, <1>7

\* Where the end of the stream is on the Reader's wire, and what is behind it.
LEMMA KindAt ==
  ASSUME TypeOK, IsData(wire) \/ IsFinal(wire, wrote), NEW u \in Damages, NEW p \in 3..Len(u)
  PROVE  /\ u[p].k = "end" => IsFinal(wire, wrote) /\ p = Len(wrote) + 3
         /\ u[p].k \notin {"byte", "end"} => IsFinal(wire, wrote) /\ p > Len(wrote) + 3
         /\ IsFinal(wire, wrote) /\ p = Len(wrote) + 3 => u[p].k = "end"
<1>1. wire \in Seq(Units) /\ Len(wrote) \in Nat
  BY DEF TypeOK, Counts, IsData, IsFinal
<1>2. /\ u \in Seq(Units) /\ Len(u) <= Len(wire)
      /\ \A i \in 1..Len(u) : u[i].k = wire[i].k
  BY <1>1, Shape
<1>3. p \in 1..Len(wire) /\ p \in Nat /\ ~(p <= 2) /\ u[p].k = wire[p].k
  BY <1>1, <1>2
<1>4. CASE IsFinal(wire, wrote)
  <2>1. u[p].k = FinalUnit(p, wrote).k
    BY <1>3, <1>4 DEF IsFinal
  <2>2. u[p].k = IF p <= Len(wrote) + 2 THEN "byte"
                 ELSE IF p = Len(wrote) + 3 THEN "end" ELSE "sum"
    BY <1>1, <1>3, <2>1, UnitKinds
  <2>3. QED
    BY <1>1, <1>3, <1>4, <2>2
<1>5. CASE IsData(wire) /\ ~IsFinal(wire, wrote)
  <2>1. u[p].k = DataUnit(p).k
    BY <1>3, <1>5 DEF IsData
  <2>2. u[p].k = "byte"
    BY <1>1, <1>3, <2>1, UnitKinds
  <2>3. QED
    BY <1>5, <2>2
<1>6. QED
  BY <1>4, <1>5

\* A wire that begins with a header as the Writer makes it, has only bytes
\* up to the end, and two sums of these bytes behind it, is the Writer's.
LEMMA SumsMatch ==
  ASSUME TypeOK, IsData(wire) \/ IsFinal(wire, wrote), NEW u \in Damages,
         headerValid(u[1].v, u[2].v),
         NEW d \in Seq(Int), NEW c \in Nat, Len(d) = c, c + 5 <= Len(u),
         \A j \in 1..c : d[j] = u[j + 2].v,
         u[c + 3].k = "end", u[c + 4] = Sum(d), u[c + 5] = Sum(d)
  PROVE  u = wire /\ d = wrote
<1> DEFINE m == Len(wrote)
<1>1. /\ wire \in Seq(Units) /\ m \in Nat /\ wrote \in Seq(Int) /\ header \in Headers
      /\ \A i \in 1..m : wrote[i] = i
  BY DEF TypeOK, Counts, IsData, IsFinal
<1>2. /\ u \in Seq(Units) /\ Len(u) <= Len(wire)
      /\ \A i \in 1..Len(u) : u[i] = wire[i] \/ u[i] = Damaged(wire[i])
  BY <1>1, Shape
<1>3. Len(u) \in Nat /\ Len(wire) \in Nat /\ c + 3 \in 3..Len(u)
  BY <1>1, <1>2
<1>4. IsFinal(wire, wrote) /\ c + 3 = m + 3
  BY <1>3, KindAt
<1>5. c = m /\ Len(wire) <= m + 5
  BY <1>1, <1>4 DEF IsFinal
<1>6. Len(u) = m + 5 /\ Len(wire) = m + 5
  BY <1>1, <1>2, <1>3, <1>5
<1>7. \A i \in 1..(m + 5) : wire[i] = FinalUnit(i, wrote)
  BY <1>4, <1>6 DEF IsFinal
<1>8. u[m + 4] = Sum(d) /\ u[m + 5] = Sum(d) /\ Len(d) = m
      /\ \A j \in 1..m : d[j] = u[j + 2].v
  BY <1>5
<1> HIDE DEF m
<1>9. \A i \in {m + 4, m + 5} : wire[i] = Sum(wrote) /\ u[i] = Sum(d)
  <2>1. SUFFICES ASSUME NEW i \in {m + 4, m + 5} PROVE wire[i] = Sum(wrote) /\ u[i] = Sum(d)
    OBVIOUS
  <2>2. i \in 1..(m + 5) /\ ~(i <= m + 2) /\ i # m + 3
    BY <1>1
  <2>3. FinalUnit(i, wrote) = Sum(wrote)
    BY <2>2 DEF FinalUnit, m
  <2>4. QED
    BY <1>7, <1>8, <2>2, <2>3
<1>10. \A i \in {m + 4, m + 5} : u[i] = wire[i]
  <2>1. SUFFICES ASSUME NEW i \in {m + 4, m + 5} PROVE u[i] = wire[i]
    OBVIOUS
  <2>2. i \in 1..Len(u)
    BY <1>1, <1>6
  <2>3. u[i] = wire[i] \/ u[i] = Damaged(wire[i])
    BY <1>2, <2>2
  <2>4. wire[i] = Sum(wrote) /\ u[i] = Sum(d)
    BY <1>9
  <2>5. Damaged(Sum(wrote)) = Sum(Append(wrote, 0))
    BY DEF Damaged, Sum
  <2>6. Len(Append(wrote, 0)) = m + 1
    BY <1>1 DEF m
  <2>7. Sum(d) # Sum(Append(wrote, 0))
    <3>1. SUFFICES ASSUME Sum(d) = Sum(Append(wrote, 0)) PROVE FALSE
      OBVIOUS
    <3>2. Sum(d).v = d /\ Sum(Append(wrote, 0)).v = Append(wrote, 0)
      BY DEF Sum
    <3>3. Len(d) = m + 1
      BY <2>6, <3>1, <3>2
    <3>4. QED
      BY <1>1, <1>8, <3>3
  <2>8. QED
    BY <2>3, <2>4, <2>5, <2>7
<1>11. d = wrote
  <2>1. u[m + 4] = Sum(d) /\ wire[m + 4] = Sum(wrote) /\ u[m + 4] = wire[m + 4]
    BY <1>9, <1>10
  <2>2. Sum(d).v = d /\ Sum(wrote).v = wrote
    BY DEF Sum
  <2>3. QED
    BY <2>1, <2>2
<1>12. ASSUME NEW i \in 3..(m + 2) PROVE u[i] = wire[i]
  <2>1. i \in 1..(m + 5) /\ i <= m + 2 /\ ~(i <= 2) /\ i - 2 \in 1..m /\ (i - 2) + 2 = i
    BY <1>1, SMTT(40)
  <2>2. wire[i] = Byte(i - 2)
    <3>1. FinalUnit(i, wrote) = Byte(i - 2)
      BY <2>1 DEF FinalUnit, DataUnit, m
    <3>2. QED
      BY <1>7, <2>1, <3>1
  <2>3. d[i - 2] = i - 2 /\ u[i].v = d[i - 2]
    BY <1>1, <1>8, <1>11, <2>1
  <2>4. u[i] = wire[i] \/ u[i] = Damaged(wire[i])
    BY <1>2, <1>6, <2>1
  <2>5. Damaged(Byte(i - 2)).v = -(i - 2)
    BY DEF Damaged, Byte
  <2>6. -(i - 2) # i - 2
    BY <2>1
  <2>7. QED
    BY <2>2, <2>3, <2>4, <2>5, <2>6
<1>13. u[m + 3] = wire[m + 3]
  <2>1. m + 3 \in 1..(m + 5) /\ ~(m + 3 <= m + 2)
    BY <1>1, SMTT(40)
  <2>2. FinalUnit(m + 3, wrote) = End
    BY <2>1 DEF FinalUnit, m
  <2>3. wire[m + 3] = End
    BY <1>7, <2>1, <2>2
  <2>4. Damaged(End) = End
    BY DEF Damaged, End
  <2>5. QED
    BY <1>2, <1>6, <2>1, <2>3, <2>4
<1>14. u[1] = wire[1] /\ u[2] = wire[2]
  <2>1. 1 \in 1..(m + 5) /\ 2 \in 1..(m + 5) /\ 1 <= m + 2 /\ 2 <= m + 2
    BY <1>1
  <2>2. wire[1] = Hdr(header[1]) /\ wire[2] = Hdr(header[2])
    <3>1. FinalUnit(1, wrote) = Hdr(header[1]) /\ FinalUnit(2, wrote) = Hdr(header[2])
      BY <2>1 DEF FinalUnit, DataUnit, m
    <3>2. QED
      BY <1>7, <2>1, <3>1
  <2>3. /\ u[1] = Hdr(header[1]) \/ u[1] = Damaged(Hdr(header[1]))
        /\ u[2] = Hdr(header[2]) \/ u[2] = Damaged(Hdr(header[2]))
    BY <1>2, <1>6, <2>1, <2>2
  <2>4. \A x : /\ Hdr(x).v = x
               /\ Damaged(Hdr(x)).v = (x + 1) % 256
    BY DEF Damaged, Hdr
  <2>5. u[1] = Hdr(header[1])
    <3>1. u[1].v # (header[1] + 1) % 256
      BY <1>1, ValidHeaders
    <3>2. QED
      BY <2>3, <2>4, <3>1
  <2>6. u[1].v = header[1]
    BY <2>4, <2>5
  <2>7. u[2].v # (header[2] + 1) % 256
    BY <1>1, <2>6, ValidHeaders
  <2>8. QED
    BY <2>2, <2>3, <2>4, <2>5, <2>7
<1>15. ASSUME NEW i \in 1..Len(u) PROVE u[i] = wire[i]
  <2>1. i \in {1, 2} \/ i \in 3..(m + 2) \/ i = m + 3 \/ i \in {m + 4, m + 5}
    BY <1>1, <1>6
  <2>2. QED
    BY <1>10, <1>12, <1>13, <1>14, <2>1
<1>16. u = wire
  BY <1>1, <1>2, <1>6, <1>15, SameWire
<1>17. QED
  BY <1>11, <1>16

\* Read up to the end of a whole stream: the sums behind it are those of the
\* bytes before.
LEMMA SumsFound ==
  ASSUME TypeOK, Whole, NEW d \in Seq(Int), NEW c \in Nat, Len(d) = c, c = Len(wrote),
         \A j \in 1..c : d[j] = wire[j + 2].v
  PROVE  d = wrote /\ wire[c + 4] = Sum(d) /\ wire[c + 5] = Sum(d)
<1>1. /\ wrote \in Seq(Int) /\ \A i \in 1..c : wrote[i] = i
      /\ Len(wire) = c + 5 /\ \A i \in 1..(c + 5) : wire[i] = FinalUnit(i, wrote)
  BY DEF TypeOK, Counts, Whole, IsFinal
<1>2. ASSUME NEW j \in 1..c PROVE d[j] = wrote[j]
  <2>1. j + 2 \in 1..(c + 5) /\ j + 2 <= c + 2 /\ ~(j + 2 <= 2) /\ (j + 2) - 2 = j
    OBVIOUS
  <2>2. FinalUnit(j + 2, wrote) = Byte(j)
    BY <2>1 DEF FinalUnit, DataUnit
  <2>3. Byte(j).v = j
    BY DEF Byte
  <2>4. wire[j + 2].v = j
    BY <1>1, <2>1, <2>2, <2>3
  <2>5. QED
    BY <1>1, <2>4
<1>3. d = wrote
  BY <1>1, <1>2, SeqEqual
<1>4. c + 4 \in 1..(c + 5) /\ c + 5 \in 1..(c + 5) /\ ~(c + 4 <= c + 2) /\ c + 4 # c + 3
      /\ ~(c + 5 <= c + 2) /\ c + 5 # c + 3
  OBVIOUS
<1>5. FinalUnit(c + 4, wrote) = Sum(wrote) /\ FinalUnit(c + 5, wrote) = Sum(wrote)
  BY <1>4 DEF FinalUnit
<1>6. QED
  BY <1>1, <1>3, <1>4, <1>5

\* After i more bytes the Reader stands i places on.
LEMMA Forward ==
  ASSUME NEW u \in Seq(Units), NEW k \in Nat, NEW r, NEW q, At(u, k, r),
         NEW i \in 0..Len(r.in), \A j \in 1..i : r.in[j].k = "byte",
         q.digest = r.digest \o [j \in 1..i |-> r.in[j].v],
         q.in = SubSeq(r.in, i + 1, Len(r.in))
  PROVE  At(u, k + i, q)
<1> DEFINE n == Len(u)
           g == r.digest
           a == r.in
           p == [j \in 1..i |-> a[j].v]
           d == g \o p
           b == SubSeq(a, i + 1, Len(a))
<1>1. /\ k + 2 <= n /\ n \in Nat
      /\ \A j \in 1..k : u[j + 2].k = "byte" /\ g[j] = u[j + 2].v
      /\ g \in Seq(Int) /\ Len(g) = k
      /\ a \in Seq(Units) /\ Len(a) = n - 2 - k
      /\ \A j \in 1..Len(a) : a[j] = u[j + 2 + k]
  <2>1. n \in Nat
    OBVIOUS
  <2>2. QED
    BY <2>1, Zenon DEF At
<1>2. q.digest = d /\ q.in = b /\ i \in 0..Len(a) /\ \A j \in 1..i : a[j].k = "byte"
  OBVIOUS
<1> HIDE DEF n, g, a
<1>3. i \in Nat /\ i <= n - 2 - k
  BY <1>1, <1>2
<1>4. \A j \in 1..i : a[j].v \in Int
  <2>1. \A x \in Units : x.k = "byte" => x.v \in Int
    BY DEF Units
  <2>2. \A j \in 1..i : a[j] \in Units
    BY <1>1, <1>2
  <2>3. QED
    BY <1>2, <2>1, <2>2
<1>5. p \in Seq(Int) /\ Len(p) = i /\ \A j \in 1..i : p[j] = a[j].v
  <2>1. p \in [1..i -> Int]
    BY <1>4
  <2>2. QED
    BY <1>3, <2>1
<1> HIDE DEF p
<1>6. d \in Seq(Int) /\ Len(d) = k + i
      /\ \A j \in 1..k + i : d[j] = IF j <= k THEN g[j] ELSE p[j - k]
  <2>1. /\ d \in Seq(Int) /\ Len(d) = Len(g) + Len(p)
        /\ \A j \in 1..Len(g) + Len(p) : d[j] = IF j <= Len(g) THEN g[j] ELSE p[j - Len(g)]
    <3>1. g \in Seq(Int) /\ p \in Seq(Int)
      BY <1>1, <1>5
    <3>2. QED
      BY <3>1, ConcatProperties
  <2> HIDE DEF d
  <2>2. QED
    BY <1>1, <1>5, <2>1
<1> HIDE DEF d
<1>7. /\ b \in Seq(Units) /\ Len(b) = n - 2 - (k + i)
      /\ \A j \in 1..Len(b) : b[j] = a[i + j]
  <2> DEFINE l == Len(a)
  <2>0. l \in Nat /\ l = n - 2 - k /\ a \in Seq(Units)
    BY <1>1
  <2> HIDE DEF l
  <2>1. \A j \in (i + 1)..l : a[j] \in Units
    BY <1>1, <1>3 DEF l
  <2>2. b = SubSeq(a, i + 1, l)
    BY DEF l
  <2> HIDE DEF b
  <2>3. /\ b \in Seq(Units) /\ Len(b) = (IF i + 1 <= l THEN l - (i + 1) + 1 ELSE 0)
        /\ \A j \in 1..(l - (i + 1) + 1) : b[j] = a[(i + 1) + j - 1]
    <3>1. i + 1 \in Int /\ l \in Int
      BY <1>3, <2>0
    <3>2. QED
      BY <2>1, <2>2, <3>1, SubSeqProperties
  <2>4. Len(b) = l - i
    BY <1>3, <2>0, <2>3
  <2>5. ASSUME NEW j \in 1..Len(b) PROVE b[j] = a[i + j]
    <3>1. j \in 1..(l - (i + 1) + 1) /\ (i + 1) + j - 1 = i + j
      BY <1>3, <2>0, <2>4
    <3>2. QED
      BY <2>3, <3>1
  <2>6. Len(b) = n - 2 - (k + i)
    BY <1>1, <1>3, <2>0, <2>4
  <2>7. QED
    BY <2>3, <2>5, <2>6
<1> HIDE DEF b
<1>8. k + i + 2 <= n
  BY <1>1, <1>3
<1>9. ASSUME NEW j \in 1..(k + i) PROVE u[j + 2].k = "byte" /\ d[j] = u[j + 2].v
  <2>1. CASE j <= k
    <3>1. j \in 1..k
      BY <1>3, <2>1
    <3>2. QED
      BY <1>1, <1>6, <2>1, <3>1
  <2>2. CASE ~(j <= k)
    <3>1. j - k \in 1..i /\ j - k \in 1..Len(a) /\ (j - k) + 2 + k = j + 2
      BY <1>1, <1>3, <2>2
    <3>2. a[j - k] = u[j + 2]
      BY <1>1, <3>1
    <3>3. d[j] = a[j - k].v /\ a[j - k].k = "byte"
      BY <1>2, <1>5, <1>6, <2>2, <3>1
    <3>4. QED
      BY <3>2, <3>3
  <2>3. QED
    BY <2>1, <2>2
<1>10. ASSUME NEW j \in 1..Len(b) PROVE b[j] = u[j + 2 + (k + i)]
  <2>1. i + j \in 1..Len(a) /\ (i + j) + 2 + k = j + 2 + (k + i)
    <3>1. Len(b) = n - 2 - (k + i) /\ Len(a) = n - 2 - k /\ n \in Nat
      BY <1>1, <1>7
    <3>2. QED
      BY <1>3, <3>1
  <2>2. QED
    BY <1>1, <1>7, <2>1
<1>11. QED
  BY <1>2, <1>6, <1>7, <1>8, <1>9, <1>10 DEF At, n

\* What a step of the Reader leaves alone.
LEMMA ReaderStep ==
  ASSUME IInv, UNCHANGED writer
  PROVE  /\ TypeOK' /\ Sent' /\ (Whole' <=> Whole) /\ Damages' = Damages
         /\ wire' = wire /\ wrote' = wrote
<1>1. /\ header' = header /\ err' = err /\ digest' = digest /\ kept' = kept /\ dest' = dest
      /\ room' = room /\ wire' = wire /\ wrote' = wrote /\ ret' = ret
  BY DEF writer
<1>2. TypeOK'
  BY <1>1 DEF IInv, TypeOK, Counts
<1>3. (IsData(wire)' <=> IsData(wire)) /\ (IsFinal(wire, wrote)' <=> IsFinal(wire, wrote))
  BY <1>1, SameHeader
<1>4. Sent'
  BY <1>1, <1>3 DEF IInv, Sent, Counts
<1>5. Whole' <=> Whole
  BY <1>1, <1>3 DEF Whole
<1>6. Damages' = Damages
  BY <1>1 DEF Damages
<1>7. QED
  BY <1>1, <1>2, <1>4, <1>5, <1>6

\* The Reader stands behind the header.
LEMMA AtStart ==
  ASSUME NEW u \in Seq(Units), Len(u) >= 2, NEW r,
         r.digest = << >>, r.in = SubSeq(u, 3, Len(u))
  PROVE  At(u, 0, r)
<1> DEFINE n == Len(u)
           b == SubSeq(u, 3, n)
<1>1. n \in Nat /\ n >= 2 /\ r.in = b /\ \A i \in 3..n : u[i] \in Units
  OBVIOUS
<1> HIDE DEF n
<1>2. /\ b \in Seq(Units) /\ Len(b) = (IF 3 <= n THEN n - 3 + 1 ELSE 0)
      /\ \A j \in 1..(n - 3 + 1) : b[j] = u[3 + j - 1]
  <2>1. 3 \in Int /\ n \in Int
    BY <1>1
  <2>2. QED
    BY <1>1, <2>1, SubSeqProperties
<1> HIDE DEF b
<1>3. Len(b) = n - 2 - 0 /\ 0 + 2 <= n
  BY <1>1, <1>2
<1>4. ASSUME NEW j \in 1..Len(b) PROVE b[j] = u[j + 2 + 0]
  <2>1. j \in 1..(n - 3 + 1) /\ 3 + j - 1 = j + 2 + 0
    BY <1>1, <1>3
  <2>2. QED
    BY <1>2, <2>1
<1>5. << >> \in Seq(Int) /\ Len(<< >>) = 0
  OBVIOUS
<1>6. QED
  BY <1>1, <1>2, <1>3, <1>4, <1>5 DEF At, n

\* The wire of a whole stream begins with the Writer's header.
LEMMA WholeHeader ==
  ASSUME TypeOK, Whole
  PROVE  Len(wire) >= 2 /\ wire[1].v = header[1] /\ wire[2].v = header[2]
<1>1. Len(wrote) \in Nat /\ Len(wire) = Len(wrote) + 5
      /\ \A i \in 1..Len(wire) : wire[i] = FinalUnit(i, wrote)
  BY DEF TypeOK, Counts, Whole, IsFinal
<1>2. 1 \in 1..Len(wire) /\ 2 \in 1..Len(wire) /\ 1 <= Len(wrote) + 2 /\ 2 <= Len(wrote) + 2
  BY <1>1
<1>3. FinalUnit(1, wrote) = Hdr(header[1]) /\ FinalUnit(2, wrote) = Hdr(header[2])
  BY <1>2 DEF FinalUnit, DataUnit
<1>4. \A x : Hdr(x).v = x
  BY DEF Hdr
<1>5. QED
  BY <1>1, <1>2, <1>3, <1>4

\* The wire holds units.
LEMMA WireUnits ==
  ASSUME IInv
  PROVE  TypeOK /\ (IsData(wire) \/ IsFinal(wire, wrote)) /\ wire \in Seq(Units)
BY DEF IInv, Sent, IsData, IsFinal

\* NewReader reads the header.
LEMMA NewReaderInv ==
  ASSUME IInv, NEW in \in Damages, NewReader(in)
  PROVE  IInv'
<1> DEFINE bad == Len(in) < 2 \/ ~headerValid(in[1].v, in[2].v)
           b == SubSeq(in, 3, Len(in))
           e == IF bad THEN "unmade" ELSE "nil"
           x == IF Len(in) < 2 THEN "UnexpectedEOF"
                ELSE IF headerValid(in[1].v, in[2].v) THEN "nil" ELSE "ErrHeader"
<1>1. rd' = [in |-> b, err |-> e, digest |-> << >>, ret |-> x, from |-> in] /\ UNCHANGED writer
  BY DEF NewReader, NoReader
<1>2. /\ TypeOK' /\ Sent' /\ (Whole' <=> Whole) /\ Damages' = Damages
      /\ wire' = wire /\ wrote' = wrote
  BY <1>1, ReaderStep
<1>3. TypeOK /\ wire \in Seq(Units) /\ in \in Seq(Units) /\ Len(in) \in Nat
  BY WireUnits, Shape
<1>4. x \in {"nil", "UnexpectedEOF", "ErrHeader"} /\ e \in {"nil", "unmade"}
      /\ (e = "nil" => Len(in) >= 2 /\ headerValid(in[1].v, in[2].v))
  BY <1>3
<1>5. Whole /\ in = wire => e = "nil"
  <2>1. SUFFICES ASSUME Whole, in = wire PROVE e = "nil"
    OBVIOUS
  <2>2. Len(wire) >= 2 /\ wire[1].v = header[1] /\ wire[2].v = header[2]
    BY <1>3, <2>1, WholeHeader
  <2>3. headerValid(header[1], header[2])
    BY <1>3, ValidHeaders DEF TypeOK
  <2>4. Len(in) >= 2 /\ headerValid(in[1].v, in[2].v)
    BY <2>1, <2>2, <2>3
  <2>5. QED
    BY <1>3, <2>4
<1> HIDE DEF e, x, b
<1>6. /\ rd'.from = in /\ rd'.ret = x /\ rd'.err = e /\ rd'.digest = << >> /\ rd'.in = b
  BY <1>1
<1>7. e = "nil" => At(in, 0, rd')
  <2>1. SUFFICES ASSUME e = "nil" PROVE At(in, 0, rd')
    OBVIOUS
  <2>2. Len(in) >= 2
    BY <1>4, <2>1
  <2>3. rd'.digest = << >> /\ rd'.in = SubSeq(in, 3, Len(in))
    BY <1>6 DEF b
  <2>4. QED
    BY <1>3, <2>2, <2>3, AtStart
<1>8. Len(rd'.digest) = 0
  BY <1>6
<1>9. At(rd'.from, Len(rd'.digest), rd') <=> At(in, 0, rd')
  BY <1>6, <1>8
<1>10. At(rd.from, Len(rd.digest), rd)' <=> At(rd'.from, Len(rd'.digest), rd')
  BY DEF At
<1>11. Made'
  BY <1>1, <1>2, <1>4, <1>5, <1>6, <1>7, <1>9, <1>10 DEF Made, headerValid
<1>12. QED
  BY <1>2, <1>11 DEF IInv, Reading

\* Saying the same again, or nothing.
LEMMA QuietInv ==
  ASSUME IInv, ReadAgain \/ Done
  PROVE  IInv'
<1>1. UNCHANGED writer
  BY DEF ReadAgain, Done, vars, writer
<1>2. /\ TypeOK' /\ Sent' /\ (Whole' <=> Whole) /\ Damages' = Damages
      /\ wire' = wire /\ wrote' = wrote
  BY <1>1, ReaderStep
<1>3. rd' = rd
  <2>1. CASE ReadAgain
    <3>1. rd # NoReader
      BY <2>1 DEF ReadAgain, NoReader
    <3>2. rd.ret = rd.err
      BY <2>1, <3>1 DEF ReadAgain, IInv, Reading, Made
    <3>3. rd' = [rd EXCEPT !.ret = rd.ret]
      BY <2>1, <3>2 DEF ReadAgain
    <3>4. rd = [in |-> rd.in, err |-> rd.err, digest |-> rd.digest, ret |-> rd.ret, from |-> rd.from]
      BY <3>1 DEF IInv, Reading, Made
    <3>5. QED
      BY <3>3, <3>4
  <2>2. CASE Done
    BY <2>2 DEF Done, vars
  <2>3. QED
    BY <2>1, <2>2
<1>4. Reading'
  <2>1. CASE rd = NoReader
    BY <1>3, <2>1 DEF Reading, NoReader
  <2>2. CASE Made
    <3>1. Made'
      BY <1>2, <1>3, <2>2 DEF Made, headerValid, At
    <3>2. QED
      BY <3>1 DEF Reading
  <2>3. QED
    BY <2>1, <2>2 DEF IInv, Reading
<1>5. QED
  BY <1>2, <1>4 DEF IInv

\* What the flate Reader returns, case by case.
LEMMA FlateCases ==
  ASSUME NEW n, NEW f \in flateReads(n)
  PROVE  \E i \in 0..Len(rd.in) :
           /\ \A j \in 1..i : rd.in[j].k = "byte"
           /\ f.data = [j \in 1..i |-> rd.in[j].v]
           /\ \/ f.err = "nil" /\ f.in = SubSeq(rd.in, i + 1, Len(rd.in))
              \/ /\ f.err = "EOF" /\ f.in = SubSeq(rd.in, (i + 1) + 1, Len(rd.in))
                 /\ i < Len(rd.in) /\ rd.in[i + 1].k = "end"
              \/ /\ f.err \in {"EOF", "UnexpectedEOF"} /\ f.in = SubSeq(rd.in, i + 1, Len(rd.in))
                 /\ i < Len(rd.in) => rd.in[i + 1].k \notin {"byte", "end"}
              \/ f.err = "Corrupt"
<1> DEFINE ready == {i \in 0..Len(rd.in) : \A j \in 1..i : rd.in[j].k = "byte"}
           fits == ready \cap (0..n)
           next(i, k) == i < Len(rd.in) /\ rd.in[i + 1].k = k
           rest(i) == SubSeq(rd.in, i + 1, Len(rd.in))
           data(i) == [j \in 1..i |-> rd.in[j].v]
<1> DEFINE A == {[data |-> data(i), in |-> rest(i), err |-> "nil"] : i \in fits \ {0}}
           B == {[data |-> data(i), in |-> rest(i + 1), err |-> "EOF"] :
                   i \in {h \in fits : next(h, "end")}}
           C == {[data |-> data(i), in |-> rest(i), err |-> e] :
                   i \in {h \in fits : ~next(h, "byte") /\ ~next(h, "end")},
                   e \in {"EOF", "UnexpectedEOF"}}
           D == {[data |-> data(i), in |-> rest(i), err |-> "Corrupt"] :
                   i \in {h \in fits : next(h, "byte") /\ rd.in[h + 1].v \in Changed}}
<1>1. f \in A \/ f \in B \/ f \in C \/ f \in D
  <2>1. flateReads(n) = A \cup B \cup C \cup D
    BY DEF flateReads
  <2> HIDE DEF A, B, C, D
  <2>2. QED
    BY <2>1
<1>2. \A i \in fits : i \in 0..Len(rd.in) /\ \A j \in 1..i : rd.in[j].k = "byte"
  OBVIOUS
<1> HIDE DEF fits
<1>3. CASE f \in A
  <2>1. PICK i \in fits : f = [data |-> data(i), in |-> rest(i), err |-> "nil"]
    BY <1>3
  <2>2. i \in 0..Len(rd.in) /\ \A j \in 1..i : rd.in[j].k = "byte"
    BY <1>2
  <2>3. f.data = data(i) /\ f.in = rest(i) /\ f.err = "nil"
    BY <2>1
  <2>4. QED
    BY <2>2, <2>3
<1>4. CASE f \in B
  <2>1. PICK i \in fits :
          f = [data |-> data(i), in |-> rest(i + 1), err |-> "EOF"] /\ next(i, "end")
    BY <1>4
  <2>2. i \in 0..Len(rd.in) /\ \A j \in 1..i : rd.in[j].k = "byte"
    BY <1>2
  <2>3. f.data = data(i) /\ f.in = rest(i + 1) /\ f.err = "EOF"
    BY <2>1
  <2>4. QED
    BY <2>1, <2>2, <2>3
<1>5. CASE f \in C
  <2>1. PICK i \in fits, e \in {"EOF", "UnexpectedEOF"} :
          /\ f = [data |-> data(i), in |-> rest(i), err |-> e]
          /\ ~next(i, "byte") /\ ~next(i, "end")
    BY <1>5
  <2>2. i \in 0..Len(rd.in) /\ \A j \in 1..i : rd.in[j].k = "byte"
    BY <1>2
  <2>3. f.data = data(i) /\ f.in = rest(i) /\ f.err \in {"EOF", "UnexpectedEOF"}
    BY <2>1
  <2>4. QED
    BY <2>1, <2>2, <2>3
<1>6. CASE f \in D
  <2>1. PICK i \in fits : f = [data |-> data(i), in |-> rest(i), err |-> "Corrupt"]
    BY <1>6
  <2>2. i \in 0..Len(rd.in) /\ \A j \in 1..i : rd.in[j].k = "byte"
    BY <1>2
  <2>3. f.data = data(i) /\ f.in = rest(i) /\ f.err = "Corrupt"
    BY <2>1
  <2>4. QED
    BY <2>2, <2>3
<1> HIDE DEF A, B, C, D
<1>7. QED
  BY <1>1, <1>3, <1>4, <1>5, <1>6

\* The rest behind the end of the stream.
LEMMA Behind ==
  ASSUME NEW a \in Seq(Units), NEW i \in Nat, i < Len(a)
  PROVE  LET t == SubSeq(a, (i + 1) + 1, Len(a))
         IN Len(t) = Len(a) - i - 1 /\ \A j \in 1..Len(t) : t[j] = a[i + 1 + j]
<1> DEFINE n == Len(a)
           t == SubSeq(a, (i + 1) + 1, n)
<1>1. n \in Nat /\ i < n /\ \A j \in ((i + 1) + 1)..n : a[j] \in Units
  OBVIOUS
<1> HIDE DEF n
<1>2. /\ Len(t) = (IF (i + 1) + 1 <= n THEN n - ((i + 1) + 1) + 1 ELSE 0)
      /\ \A j \in 1..(n - ((i + 1) + 1) + 1) : t[j] = a[((i + 1) + 1) + j - 1]
  <2>1. (i + 1) + 1 \in Int /\ n \in Int
    BY <1>1
  <2>2. QED
    BY <1>1, <2>1, SubSeqProperties
<1> HIDE DEF t
<1>3. Len(t) = n - i - 1
  BY <1>1, <1>2
<1>4. ASSUME NEW j \in 1..Len(t) PROVE t[j] = a[i + 1 + j]
  <2>1. j \in 1..(n - ((i + 1) + 1) + 1) /\ ((i + 1) + 1) + j - 1 = i + 1 + j
    BY <1>1, <1>3
  <2>2. QED
    BY <1>2, <2>1
<1>5. QED
  BY <1>3, <1>4 DEF t, n

\* Bytes all the way to a place cannot pass the end of the stream.
LEMMA NotPassed ==
  ASSUME TypeOK, IsFinal(wire, wrote), NEW u \in Damages, NEW c \in Nat, c + 2 <= Len(u),
         u \in Seq(Units), \A j \in 1..c : u[j + 2].k = "byte"
  PROVE  c <= Len(wrote)
<1>1. SUFFICES ASSUME c > Len(wrote) PROVE FALSE
  BY DEF TypeOK, Counts
<1>2. Len(wrote) \in Nat /\ Len(u) \in Nat
  BY DEF TypeOK, Counts
<1>3. Len(wrote) + 3 \in 3..Len(u) /\ Len(wrote) + 1 \in 1..c
      /\ (Len(wrote) + 1) + 2 = Len(wrote) + 3
  BY <1>1, <1>2
<1>4. u[Len(wrote) + 3].k = "end"
  BY <1>3, KindAt
<1>5. u[Len(wrote) + 3].k = "byte"
  BY <1>3
<1>6. QED
  BY <1>4, <1>5

\* Read, with the checksum at the end of the stream.
LEMMA ReadInv ==
  ASSUME IInv, NEW n, Read(n)
  PROVE  IInv'
<1> DEFINE u == rd.from
           k == Len(rd.digest)
           a == rd.in
<1>1. Made /\ UNCHANGED writer /\ rd.err = "nil"
  BY DEF Read, IInv, Reading, NoReader
<1>2. /\ TypeOK' /\ Sent' /\ (Whole' <=> Whole) /\ Damages' = Damages
      /\ wire' = wire /\ wrote' = wrote
  BY <1>1, ReaderStep
<1>3. TypeOK /\ (IsData(wire) \/ IsFinal(wire, wrote)) /\ wire \in Seq(Units) /\ Len(wrote) \in Nat
  BY WireUnits DEF TypeOK, Counts
<1>4. u \in Damages /\ headerValid(u[1].v, u[2].v) /\ At(u, k, rd)
  BY <1>1 DEF Made
<1>5. u \in Seq(Units) /\ Len(u) \in Nat
  BY <1>3, <1>4, Shape
<1>6. /\ k + 2 <= Len(u) /\ k \in Nat /\ rd.digest \in Seq(Int)
      /\ a \in Seq(Units) /\ Len(a) = Len(u) - 2 - k
      /\ \A j \in 1..Len(a) : a[j] = u[j + 2 + k]
  <2>1. /\ k + 2 <= Len(u) /\ rd.digest \in Seq(Int)
        /\ a \in Seq(Units) /\ Len(a) = Len(u) - 2 - k
        /\ \A j \in 1..Len(a) : a[j] = u[j + 2 + k]
    BY <1>4, Zenon DEF At
  <2>2. k \in Nat
    BY <2>1
  <2>3. QED
    BY <2>1, <2>2
<1>7. PICK f \in flateReads(n) :
        LET d == rd.digest \o f.data
            e == IF f.err = "EOF" THEN trailerErr(f.in, d) ELSE f.err
        IN rd' = [rd EXCEPT !.in = f.in, !.digest = d, !.err = e, !.ret = e]
  BY DEF Read
<1>8. PICK i \in 0..Len(a) :
        /\ \A j \in 1..i : a[j].k = "byte"
        /\ f.data = [j \in 1..i |-> a[j].v]
        /\ \/ f.err = "nil" /\ f.in = SubSeq(a, i + 1, Len(a))
           \/ /\ f.err = "EOF" /\ f.in = SubSeq(a, (i + 1) + 1, Len(a))
              /\ i < Len(a) /\ a[i + 1].k = "end"
           \/ /\ f.err \in {"EOF", "UnexpectedEOF"} /\ f.in = SubSeq(a, i + 1, Len(a))
              /\ i < Len(a) => a[i + 1].k \notin {"byte", "end"}
           \/ f.err = "Corrupt"
  BY FlateCases
<1> DEFINE d == rd.digest \o f.data
           e == IF f.err = "EOF" THEN trailerErr(f.in, d) ELSE f.err
           q == [digest |-> d, in |-> SubSeq(a, i + 1, Len(a))]
           c == k + i
<1>9. rd' = [in |-> f.in, err |-> e, digest |-> d, ret |-> e, from |-> u]
  <2>1. rd = [in |-> rd.in, err |-> rd.err, digest |-> rd.digest, ret |-> rd.ret, from |-> rd.from]
    BY <1>1 DEF Made
  <2>2. rd' = [rd EXCEPT !.in = f.in, !.digest = d, !.err = e, !.ret = e]
    BY <1>7
  <2> HIDE DEF d, e
  <2>3. QED
    BY <2>1, <2>2
<1>10. /\ rd'.in = f.in /\ rd'.err = e /\ rd'.digest = d /\ rd'.ret = e /\ rd'.from = u
       /\ rd' = [in |-> rd'.in, err |-> rd'.err, digest |-> rd'.digest, ret |-> rd'.ret,
                 from |-> rd'.from]
  <2> HIDE DEF d, e, u
  <2>1. QED
    BY <1>9
<1>11. At(u, c, q)
  <2>1. q.digest = rd.digest \o [j \in 1..i |-> a[j].v] /\ q.in = SubSeq(a, i + 1, Len(a))
    BY <1>8
  <2> HIDE DEF q
  <2>2. QED
    BY <1>4, <1>5, <1>6, <1>8, <2>1, Forward
<1>12. /\ c + 2 <= Len(u) /\ d \in Seq(Int) /\ Len(d) = c /\ c \in Nat
       /\ \A j \in 1..c : u[j + 2].k = "byte" /\ d[j] = u[j + 2].v
  <2>1. q.digest = d
    OBVIOUS
  <2>2. c \in Nat
    BY <1>6
  <2> HIDE DEF q, d, c
  <2>3. QED
    BY <1>11, <2>1, <2>2 DEF At
<1>13. /\ i \in Nat /\ k \in Nat /\ Len(a) \in Nat /\ Len(u) \in Nat
       /\ i <= Len(a) /\ Len(u) = Len(a) + k + 2 /\ c = k + i
  <2>1. Len(a) \in Nat /\ i \in Nat /\ i <= Len(a)
    <3>1. a \in Seq(Units)
      BY <1>6
    <3>2. i \in 0..Len(a)
      OBVIOUS
    <3> HIDE DEF a
    <3>3. QED
      BY <3>1, <3>2
  <2>2. Len(a) = Len(u) - 2 - k /\ k \in Nat
    BY <1>6
  <2>3. Len(u) = Len(a) + k + 2
    <3> HIDE DEF a, u, k
    <3>1. QED
      BY <1>5, <2>1, <2>2
  <2>4. QED
    BY <1>5, <2>1, <2>2, <2>3
<1>14. CASE f.err = "nil" /\ f.in = SubSeq(a, i + 1, Len(a))
  <2>1. e = "nil"
    BY <1>14
  <2>2. At(u, c, rd')
    <3>1. rd'.digest = q.digest /\ rd'.in = q.in
      BY <1>10, <1>14
    <3>2. QED
      BY <1>11, <3>1 DEF At
  <2> HIDE DEF e, d, c, u
  <2>3. At(rd.from, Len(rd.digest), rd)' <=> At(u, c, rd')
    BY <1>10, <1>12 DEF At
  <2>4. Made'
    BY <1>2, <1>4, <1>10, <2>1, <2>2, <2>3 DEF Made, headerValid
  <2>5. QED
    BY <1>2, <2>4 DEF IInv, Reading
<1> DEFINE Ends ==
       /\ e \in {"EOF", "UnexpectedEOF", "ErrChecksum", "Corrupt"}
       /\ e = "EOF" => u = wire /\ d = wrote
       /\ Whole /\ u = wire => e \in {"EOF", "Corrupt"}
<1>15. Ends => IInv'
  <2>1. SUFFICES ASSUME Ends PROVE IInv'
    OBVIOUS
  <2>2. /\ e \in {"EOF", "UnexpectedEOF", "ErrChecksum", "Corrupt"}
        /\ e = "EOF" => u = wire /\ d = wrote
        /\ Whole /\ u = wire => e \in {"EOF", "Corrupt"}
    BY <2>1
  <2> HIDE DEF e, d, u
  <2>3. Made'
    BY <1>2, <1>4, <1>10, <2>2 DEF Made
  <2>4. QED
    BY <1>2, <2>3 DEF IInv, Reading
<1>16. CASE /\ f.err = "EOF" /\ f.in = SubSeq(a, (i + 1) + 1, Len(a))
            /\ i < Len(a) /\ a[i + 1].k = "end"
  <2> DEFINE t == SubSeq(a, (i + 1) + 1, Len(a))
  <2>1. e = trailerErr(t, d)
    BY <1>16
  <2>2. Len(t) = Len(a) - i - 1 /\ \A j \in 1..Len(t) : t[j] = a[i + 1 + j]
    BY <1>6, <1>13, <1>16, Behind
  <2> HIDE DEF t, e, d
  <2>3. c + 3 <= Len(u) /\ Len(t) = Len(u) - 3 - c /\ Len(t) \in Nat
    <3>1. i < Len(a)
      BY <1>16
    <3>2. Len(t) = Len(a) - i - 1
      BY <2>2
    <3> HIDE DEF a, u, k, c
    <3>3. QED
      BY <1>13, <3>1, <3>2
  <2>4. u[c + 3].k = "end"
    <3>1. i + 1 \in 1..Len(a) /\ (i + 1) + 2 + k = c + 3
      <4>1. i < Len(a)
        BY <1>16
      <4> HIDE DEF a, u, k, c
      <4>2. QED
        BY <1>13, <4>1
    <3>2. a[i + 1] = u[c + 3]
      BY <1>6, <3>1
    <3>3. QED
      BY <1>16, <3>2
  <2>5. \A j \in 1..Len(t) : t[j] = u[c + 3 + j]
    <3>1. ASSUME NEW j \in 1..Len(t) PROVE t[j] = u[c + 3 + j]
      <4>1. i + 1 + j \in 1..Len(a) /\ (i + 1 + j) + 2 + k = c + 3 + j
        <5>1. Len(t) = Len(a) - i - 1
          BY <2>2
        <5> HIDE DEF a, u, k, c
        <5>2. QED
          BY <1>13, <5>1
      <4>2. QED
        BY <1>6, <2>2, <4>1
    <3>2. QED
      BY <3>1
  <2>6. Len(t) >= 2 => t[1] = u[c + 4] /\ t[2] = u[c + 5] /\ c + 5 <= Len(u)
    <3>1. SUFFICES ASSUME Len(t) >= 2 PROVE t[1] = u[c + 4] /\ t[2] = u[c + 5] /\ c + 5 <= Len(u)
      OBVIOUS
    <3>2. 1 \in 1..Len(t) /\ 2 \in 1..Len(t) /\ c + 3 + 1 = c + 4 /\ c + 3 + 2 = c + 5
          /\ c + 5 <= Len(u)
      <4>1. Len(t) = Len(u) - 3 - c /\ c \in Nat
        BY <1>12, <2>3
      <4>2. Len(u) \in Nat /\ Len(t) \in Nat
        BY <1>13, <2>3
      <4> HIDE DEF a, u, k, c
      <4>3. QED
        BY <3>1, <4>1, <4>2
    <3>3. QED
      BY <2>5, <3>2
  <2> HIDE DEF c
  <2>7. e \in {"EOF", "UnexpectedEOF", "ErrChecksum"}
    BY <2>1 DEF trailerErr
  <2>8. e = "EOF" => u = wire /\ d = wrote
    <3>1. SUFFICES ASSUME e = "EOF" PROVE u = wire /\ d = wrote
      OBVIOUS
    <3>2. ~(Len(t) < 2) /\ t[1] = Sum(d) /\ t[2] = Sum(d)
      BY <2>1, <3>1 DEF trailerErr
    <3>3. u[c + 4] = Sum(d) /\ u[c + 5] = Sum(d) /\ c + 5 <= Len(u)
      BY <2>3, <2>6, <3>2
    <3> HIDE DEF u
    <3>4. QED
      BY <1>3, <1>4, <1>12, <2>4, <3>3, SumsMatch
  <2>9. Whole /\ u = wire => e = "EOF"
    <3>1. SUFFICES ASSUME Whole, u = wire PROVE e = "EOF"
      OBVIOUS
    <3>2. c + 3 \in 3..Len(u)
      BY <1>5, <1>12, <2>3
    <3>3. c + 3 = Len(wrote) + 3
      BY <1>3, <1>4, <2>4, <3>2, KindAt
    <3>4. c = Len(wrote)
      BY <1>3, <1>12, <3>3
    <3>5. \A j \in 1..c : d[j] = wire[j + 2].v
      BY <1>12, <3>1
    <3>6. wire[c + 4] = Sum(d) /\ wire[c + 5] = Sum(d)
      BY <1>3, <1>12, <3>1, <3>4, <3>5, SumsFound
    <3>7. Len(t) = 2
      BY <2>3, <3>1, <3>4, <1>3 DEF Whole
    <3>8. t[1] = Sum(d) /\ t[2] = Sum(d)
      BY <2>6, <3>1, <3>6, <3>7
    <3>9. QED
      BY <2>1, <3>7, <3>8 DEF trailerErr
  <2> HIDE DEF u
  <2>10. Ends
    BY <2>7, <2>8, <2>9
  <2>11. QED
    BY <1>15, <2>10
<1>17. CASE /\ f.err \in {"EOF", "UnexpectedEOF"} /\ f.in = SubSeq(a, i + 1, Len(a))
            /\ i < Len(a) => a[i + 1].k \notin {"byte", "end"}
  <2>1. i = Len(a)
    <3>0. i = Len(a) \/ i < Len(a)
      <4> HIDE DEF a, u, k, c
      <4>1. QED
        BY <1>13
    <3>1. SUFFICES ASSUME i < Len(a) PROVE FALSE
      BY <3>0
    <3>2. i + 1 \in 1..Len(a) /\ (i + 1) + 2 + k = c + 3
      <4> HIDE DEF a, u, k, c
      <4>1. QED
        BY <1>13, <3>1
    <3>3. a[i + 1] = u[c + 3]
      BY <1>6, <3>2
    <3>4. u[c + 3].k \notin {"byte", "end"}
      BY <1>17, <3>1, <3>3
    <3>5. c + 3 \in 3..Len(u)
      <4> HIDE DEF a, u, k, c
      <4>1. QED
        BY <1>13, <3>1
    <3> HIDE DEF u, c
    <3>6. IsFinal(wire, wrote) /\ c + 3 > Len(wrote) + 3
      BY <1>3, <1>4, <3>4, <3>5, KindAt
    <3>7. c <= Len(wrote)
      BY <1>3, <1>4, <1>5, <1>12, <3>6, NotPassed
    <3>8. QED
      BY <1>3, <1>12, <3>6, <3>7
  <2>2. Len(f.in) = 0
    <3>1. f.in = SubSeq(a, Len(a) + 1, Len(a))
      BY <1>17, <2>1
    <3>2. QED
      BY <1>6, <3>1
  <2>3. e = "UnexpectedEOF"
    BY <1>17, <2>2 DEF trailerErr
  <2>4. Len(u) = c + 2
    <3> HIDE DEF a, u, k, c
    <3>1. QED
      BY <1>13, <2>1
  <2> HIDE DEF u, c, d, e
  <2>5. ~(Whole /\ u = wire)
    <3>1. SUFFICES ASSUME Whole, u = wire PROVE FALSE
      OBVIOUS
    <3>2. IsFinal(wire, wrote) /\ Len(u) = Len(wrote) + 5
      BY <3>1 DEF Whole
    <3>3. c <= Len(wrote)
      BY <1>3, <1>4, <1>5, <1>12, <3>2, NotPassed
    <3>4. QED
      BY <1>3, <1>12, <2>4, <3>2, <3>3
  <2>6. Ends
    BY <2>3, <2>5
  <2>7. QED
    BY <1>15, <2>6
<1>18. CASE f.err = "Corrupt"
  <2>1. e = "Corrupt"
    BY <1>18
  <2> HIDE DEF e, u, d
  <2>2. Ends
    BY <2>1
  <2>3. QED
    BY <1>15, <2>2
<1>19. QED
  BY <1>8, <1>14, <1>16, <1>17, <1>18
-----------------------------------------------------------------------------
(* The theorems.                                                           *)

\* The invariant holds at the start and every step of Writer and Reader
\* preserves it: NewWriter, Reset, Write, Close, NewReader and Read
\* (zlib/writer.go, zlib/reader.go).
THEOREM Inductive == (Init => IInv) /\ (IInv /\ [Next]_vars => IInv')
<1>1. Init => IInv
  BY InitInv
<1>2. ASSUME IInv, [Next]_vars PROVE IInv'
  <2>1. ASSUME NEW space \in Rooms, Reset(space) PROVE IInv'
    BY <1>2, <2>1, ResetInv
  <2>2. ASSUME NEW n \in Writes, Write(n) PROVE IInv'
    BY <1>2, <2>2, WriteInv
  <2>3. CASE Close
    BY <1>2, <2>3, CloseInv
  <2>4. ASSUME NEW in \in Damages, NewReader(in) PROVE IInv'
    BY <1>2, <2>4, NewReaderInv
  <2>5. ASSUME NEW n \in Buffers, Read(n) PROVE IInv'
    BY <1>2, <2>5, ReadInv
  <2>6. CASE ReadAgain \/ Done
    BY <1>2, <2>6, QuietInv
  <2>7. CASE UNCHANGED vars
    <3>1. UNCHANGED writer /\ rd' = rd
      BY <2>7 DEF vars, writer
    <3>2. /\ TypeOK' /\ Sent' /\ (Whole' <=> Whole) /\ Damages' = Damages
          /\ wire' = wire /\ wrote' = wrote
      BY <1>2, <3>1, ReaderStep
    <3>3. CASE rd = NoReader
      BY <3>1, <3>2, <3>3 DEF IInv, Reading, NoReader
    <3>4. CASE Made
      <4>1. Made'
        BY <3>1, <3>2, <3>4 DEF Made, headerValid, At
      <4>2. QED
        BY <3>2, <4>1 DEF IInv, Reading
    <3>5. QED
      BY <1>2, <3>3, <3>4 DEF IInv, Reading
  <2>8. QED
    BY <1>2, <2>1, <2>2, <2>3, <2>4, <2>5, <2>6, <2>7 DEF Next
<1>3. QED
  BY <1>1, <1>2

\* What is on the wire is the beginning of header, bytes and trailer of what
\* Write accepted, and a Reader has the bytes before the place it stands at.
THEOREM Invariance == Spec => []IInv
<1>1. Init => IInv
  BY Inductive
<1>2. IInv /\ [Next]_vars => IInv'
  BY Inductive
<1>3. QED
  BY <1>1, <1>2, PTL DEF Spec

\* No sequence of Write, Close and Reset makes the Writer call a flate Writer
\* whose destination Close has set to nil (zlib/writer.go lines 26-29, 98-115).
THEOREM NilNeverUsed == Spec => []NoNilDestination
<1>1. IInv => NoNilDestination
  BY DEF IInv, Sent, NoNilDestination
<1>2. QED
  BY <1>1, Invariance, PTL

\* io.EOF from the zlib Reader means the whole of what the Writer was given,
\* wherever the stream was cut off and whichever byte of it was changed
\* (zlib/reader.go lines 60-86).
THEOREM EofAlwaysVerified == Spec => []EofMeansVerified
<1>1. IInv => EofMeansVerified
  <2>1. SUFFICES ASSUME IInv, rd.ret = "EOF" PROVE rd.digest = wrote
    BY DEF EofMeansVerified, got
  <2>2. rd # NoReader
    BY <2>1 DEF NoReader
  <2>3. Made
    BY <2>1, <2>2 DEF IInv, Reading
  <2>4. rd.err = "EOF"
    BY <2>1, <2>3 DEF Made
  <2>5. QED
    BY <2>3, <2>4 DEF Made
<1>2. QED
  BY <1>1, Invariance, PTL

\* A stream whose Close returned nil is read to io.EOF, with the data that
\* was written: the Reader reports neither a bad header nor a wrong checksum
\* nor an early end (zlib/writer.go lines 98-115, zlib/reader.go).
THEOREM ClosedAlwaysReads == Spec => []ClosedStreamReads
<1>1. IInv => ClosedStreamReads
  <2>1. SUFFICES ASSUME IInv, ret = "nil", rd.from = wire, wire # << >>, Last(wire).k = "sum",
                        rd.err \notin {"nil", "Corrupt"}
                 PROVE  rd.ret = "EOF" /\ rd.digest = wrote
    BY DEF ClosedStreamReads, got
  <2>2. ~IsData(wire)
    <3>1. SUFFICES ASSUME IsData(wire) PROVE FALSE
      OBVIOUS
    <3>2. wire \in Seq(Units) /\ Len(wire) \in 1..Len(wire) /\ Len(wire) \in Nat
      <4>1. wire \in Seq(Units)
        BY <3>1 DEF IsData
      <4>2. Len(wire) \in Nat /\ Len(wire) # 0
        BY <2>1, <4>1
      <4>3. QED
        BY <4>1, <4>2
    <3>3. Last(wire) = DataUnit(Len(wire))
      BY <3>1, <3>2 DEF IsData, Last
    <3>4. DataUnit(Len(wire)).k \in {"hdr", "byte"}
      BY DEF DataUnit, Hdr, Byte
    <3>5. QED
      BY <2>1, <3>3, <3>4
  <2>3. Whole
    BY <2>1, <2>2 DEF IInv, Sent, Whole
  <2>4. rd # NoReader
    BY <2>1 DEF NoReader
  <2>5. Made
    BY <2>1, <2>4 DEF IInv, Reading
  <2>6. rd.err = "EOF"
    BY <2>1, <2>3, <2>5 DEF Made
  <2>7. QED
    BY <2>5, <2>6 DEF Made
<1>2. QED
  BY <1>1, Invariance, PTL
=============================================================================
