-------------------------------- MODULE Zlib --------------------------------
(***************************************************************************)
(* Package zlib: Writer (zlib/writer.go) and Reader (zlib/reader.go) at    *)
(* the two ends of a wire.                                                 *)
(*                                                                         *)
(* The wire carries two header bytes with their values, the compressed     *)
(* stream and two halves of the trailer.  The flate Writer and Reader      *)
(* between are used by what Compressor and Inflate show of them: a Write   *)
(* may keep bytes back, a successful Close has put out all of them and a   *)
(* final block; a Read returns bytes in order, and a stream that is cut    *)
(* off ends in io.EOF or io.ErrUnexpectedEOF.  Bytes are numbered; the     *)
(* checksum of a run of bytes is the run itself.                           *)
(***************************************************************************)
EXTENDS Integers, Sequences, SequencesExt, FiniteSets

CONSTANTS
  Levels,    \* the levels NewWriter is called with
  Writes,    \* the lengths of the slices Write is called with
  Buffers,   \* the sizes of the buffers Read is called with
  Rooms,     \* how many units a destination takes before it fails
  MaxBytes,  \* bound: bytes in one stream
  MaxStreams \* bound: streams written with one Writer

ASSUME ZlibAssumption ==
  /\ Writes \subseteq Nat /\ Buffers \subseteq Nat /\ Rooms \subseteq Nat
  /\ MaxBytes \in Nat /\ MaxStreams \in Nat

VARIABLES
  header,  \* z.header, fixed by NewWriter
  err,     \* z.err of the Writer
  digest,  \* z.digest of the Writer
  kept,    \* the bytes the flate Writer holds back
  dest,    \* the flate Writer's destination: "open", or "nil" after its Close
  room,    \* how many units the destination still takes
  wire,    \* what the destination has taken
  wrote,   \* history: the bytes Write accepted for this stream
  ret,     \* history: the result of the last call on the Writer
  streams, \* how many streams were begun
  rd       \* the Reader: the input that is left, z.err, digest, result of the
           \* last call, and the wire it was made from

vars == <<header, err, digest, kept, dest, room, wire, wrote, ret, streams, rd>>

writer == <<header, err, digest, kept, dest, room, wire, wrote, ret, streams>>

Hdr(v) == [k |-> "hdr", v |-> v]
Byte(v) == [k |-> "byte", v |-> v]
End == [k |-> "end", v |-> 0]
Sum(d) == [k |-> "sum", v |-> d]

Bytes(s) == [i \in DOMAIN s |-> Byte(s[i])]
NoReader == [in |-> << >>, err |-> "nil", digest |-> << >>, ret |-> "none", from |-> << >>]

-----------------------------------------------------------------------------
(* The Writer.                                                             *)

\* The two bits of FLEVEL.
flevel(level) ==
  CASE level \in {-2, 0, 1} -> 0
    [] level \in 2..5 -> 1
    [] level \in {6, -1} -> 2
    [] OTHER -> 3

\* Mutated form of fcheck: the remainder itself.
fcheckRemainder(flg) == (120 * 256 + flg) % 31

\* FCHECK makes the pair a multiple of 31.
fcheck(flg) == 31 - ((120 * 256 + flg) % 31)

\* NewWriter's header.
headerOf(level) ==
  LET flg == flevel(level) * 64 IN <<120, (flg + fcheck(flg)) % 256>>

\* The destination is given units and takes as many as it has room for.
taken(units) == IF Len(units) <= room THEN units ELSE SubSeq(units, 1, room)
fails(units) == Len(units) > room

\* Reset: the header goes out at once; its failure is kept for later.
Reset(space) ==
  /\ ret # "panic"
  /\ streams < MaxStreams
  /\ rd = NoReader
  /\ streams' = streams + 1
  /\ LET units == <<Hdr(header[1]), Hdr(header[2])>>
     IN /\ wire' = SubSeq(units, 1, IF space < 2 THEN space ELSE 2)
        /\ err' = IF space < 2 THEN "sink" ELSE "nil"
        /\ room' = space - Len(wire')
  /\ digest' = << >>
  /\ kept' = << >>
  /\ dest' = "open"
  /\ wrote' = << >>
  /\ ret' = "none"
  /\ UNCHANGED <<header, rd>>

\* Write: any part of what the flate Writer holds may come out.
Write(n) ==
  /\ ret # "panic"
  /\ rd = NoReader
  /\ Len(wrote) + n <= MaxBytes
  /\ \/ /\ err # "nil"
        /\ ret' = err
        /\ UNCHANGED <<err, digest, kept, wrote, wire, room>>
     \/ /\ err = "nil" /\ dest = "nil"
        /\ ret' = "panic"
        /\ UNCHANGED <<err, digest, kept, wrote, wire, room>>
     \/ /\ err = "nil" /\ dest = "open"
        /\ LET p == [i \in 1..n |-> Len(wrote) + i]
               all == kept \o p
           IN \E out \in 0..Len(all) :
                LET units == Bytes(SubSeq(all, 1, out))
                IN /\ wire' = wire \o taken(units)
                   /\ room' = room - Len(taken(units))
                   /\ err' = IF fails(units) THEN "sink" ELSE "nil"
                   /\ ret' = err'
                   /\ kept' = SubSeq(all, out + 1, Len(all))
                   /\ digest' = IF fails(units) THEN digest ELSE digest \o p
                   /\ wrote' = IF fails(units) THEN wrote ELSE wrote \o p
  /\ UNCHANGED <<header, dest, streams, rd>>

\* Mutated form of closeDone: the Writer does not remember that it is closed.
closeDoneForgotten == "nil"

\* z.err after a successful Close.
closeDone == "errClosed"

\* Close: the flate stream ends, then the checksum goes out.
Close ==
  /\ ret # "panic"
  /\ rd = NoReader
  /\ \/ /\ err # "nil"
        /\ ret' = err
        /\ UNCHANGED <<err, kept, dest, wire, room>>
     \/ /\ err = "nil" /\ dest = "nil"
        /\ ret' = "panic"
        /\ UNCHANGED <<err, kept, dest, wire, room>>
     \/ /\ err = "nil" /\ dest = "open"
        /\ LET stream == Append(Bytes(kept), End)
               units == stream \o <<Sum(digest), Sum(digest)>>
           IN /\ wire' = wire \o taken(units)
              /\ room' = room - Len(taken(units))
              /\ dest' = IF fails(stream) THEN dest ELSE "nil"
              /\ kept' = << >>
              /\ err' = IF fails(units) THEN "sink" ELSE closeDone
              /\ ret' = IF fails(units) THEN "sink" ELSE "nil"
  /\ UNCHANGED <<header, digest, wrote, streams, rd>>

-----------------------------------------------------------------------------
(* The Reader, on the wire as it is, cut off, or with one unit changed: a  *)
(* header byte by one, a byte of the data or a half of the checksum at all. *)

Damaged(u) ==
  CASE u.k = "hdr" -> [u EXCEPT !.v = (@ + 1) % 256]
    [] u.k = "byte" -> [u EXCEPT !.v = -@]
    [] u.k = "sum" -> [u EXCEPT !.v = Append(@, 0)]
    [] OTHER -> u

Damages ==
  {wire} \cup {SubSeq(wire, 1, k) : k \in 0..Len(wire)}
         \cup {[wire EXCEPT ![i] = Damaged(wire[i])] : i \in DOMAIN wire}

\* The header that NewReader accepts: CM 8, CINFO at most 7, FCHECK, no FDICT.
headerValid(a, b) ==
  /\ a % 16 = 8
  /\ a \div 16 <= 7
  /\ (a * 256 + b) % 31 = 0
  /\ (b \div 32) % 2 = 0

NewReader(in) ==
  /\ rd = NoReader
  /\ rd' = [NoReader EXCEPT
              !.from = in,
              !.in = SubSeq(in, 3, Len(in)),
              !.ret = IF Len(in) < 2 THEN "UnexpectedEOF"
                      ELSE IF headerValid(in[1].v, in[2].v) THEN "nil" ELSE "ErrHeader",
              !.err = IF Len(in) < 2 \/ ~headerValid(in[1].v, in[2].v) THEN "unmade" ELSE "nil"]
  /\ UNCHANGED writer

Changed == {-v : v \in 1..MaxBytes}

\* What the flate Reader may return for a buffer of n: bytes, the input it
\* leaves and an error.  Changed bytes may go unnoticed.
flateReads(n) ==
  LET ready == {i \in 0..Len(rd.in) : \A j \in 1..i : rd.in[j].k = "byte"}
      fits == ready \cap (0..n)
      next(i, k) == i < Len(rd.in) /\ rd.in[i + 1].k = k
      rest(i) == SubSeq(rd.in, i + 1, Len(rd.in))
      data(i) == [j \in 1..i |-> rd.in[j].v]
  IN {[data |-> data(i), in |-> rest(i), err |-> "nil"] : i \in fits \ {0}}
     \cup {[data |-> data(i), in |-> rest(i + 1), err |-> "EOF"] :
             i \in {h \in fits : next(h, "end")}}
     \cup {[data |-> data(i), in |-> rest(i), err |-> e] :
             i \in {h \in fits : ~next(h, "byte") /\ ~next(h, "end")},
             e \in {"EOF", "UnexpectedEOF"}}
     \cup {[data |-> data(i), in |-> rest(i), err |-> "Corrupt"] :
             i \in {h \in fits : next(h, "byte") /\ rd.in[h + 1].v \in Changed}}

\* Mutated form of trailerErr: it is not compared.
trailerErrUnchecked(in, d) == IF Len(in) < 2 THEN "UnexpectedEOF" ELSE "EOF"

\* What the trailer makes of the end of the stream.
trailerErr(in, d) ==
  IF Len(in) < 2 THEN "UnexpectedEOF"
  ELSE IF in[1] # Sum(d) \/ in[2] # Sum(d) THEN "ErrChecksum"
  ELSE "EOF"

Read(n) ==
  /\ rd.ret = "nil"
  /\ rd.err = "nil"
  /\ \E f \in flateReads(n) :
       LET d == rd.digest \o f.data
           e == IF f.err = "EOF" THEN trailerErr(f.in, d) ELSE f.err
       IN rd' = [rd EXCEPT !.in = f.in, !.digest = d, !.err = e, !.ret = e]
  /\ UNCHANGED writer

\* A Read after an error says the same again.
ReadAgain ==
  /\ rd.ret # "none"
  /\ rd.err \notin {"nil", "unmade"}
  /\ rd' = [rd EXCEPT !.ret = rd.err]
  /\ UNCHANGED writer

\* NewReader made no Reader, or the Writer panicked: nothing is left.
Done == (rd.err = "unmade" \/ ret = "panic") /\ UNCHANGED vars

Init ==
  /\ \E level \in Levels : header = headerOf(level)
  /\ \E space \in Rooms :
       /\ space >= 2 \* NewWriter returns no Writer if the header fails
       /\ room = space - 2
  /\ wire = <<Hdr(header[1]), Hdr(header[2])>>
  /\ err = "nil"
  /\ digest = << >>
  /\ kept = << >>
  /\ dest = "open"
  /\ wrote = << >>
  /\ ret = "none"
  /\ streams = 1
  /\ rd = NoReader

Next ==
  \/ \E space \in Rooms : Reset(space)
  \/ \E n \in Writes : Write(n)
  \/ Close
  \/ \E in \in Damages : NewReader(in)
  \/ \E n \in Buffers : Read(n)
  \/ ReadAgain
  \/ Done

Spec == Init /\ [][Next]_vars

-----------------------------------------------------------------------------
(* Properties.                                                             *)

\* The data the Reader has returned.
got == rd.digest

\* A Close that returns nil has made a stream that a Reader accepts to the
\* last byte: header, data and checksum, on every destination that did not
\* fail, for every level and after any Reset.
ClosedStreamReads ==
  ret = "nil" /\ rd.from = wire /\ wire # << >> /\ Last(wire).k = "sum"
    /\ rd.err \notin {"nil", "Corrupt"}
    => rd.ret = "EOF" /\ got = wrote

\* io.EOF from Read means that the data is what the Writer was given, whole
\* and unchanged, although the flate Reader below may report io.EOF for a
\* stream that was cut off (inflate_gen.go line 121).
EofMeansVerified == rd.ret = "EOF" => got = wrote

\* A Writer that is closed never calls the flate Writer again, whose
\* destination is nil (zlib/writer.go lines 26-29).
NoNilDestination == ret # "panic"
=============================================================================
