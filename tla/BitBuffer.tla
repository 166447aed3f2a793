------------------------------ MODULE BitBuffer ------------------------------
(***************************************************************************)
(* The bits and bytes of the Huffman bit writer                            *)
(* (flate/huffman_bit_writer.go): a 64-bit accumulator from which whole    *)
(* bytes are stored, eight at a time, into a fixed buffer that is handed   *)
(* to the destination when it is nearly full.                              *)
(*                                                                         *)
(* Three loops fill it, each with its own rule of when to store: single    *)
(* fields and codes once 48 bits have come together (writeBits, writeCode), *)
(* writeTokens after every token, writeBlockHuff before every three codes. *)
(* Each relies on what the one before has left behind.                     *)
(*                                                                         *)
(* What the bits are is left out; where they are is not.  Bits are counted *)
(* from the first one that is not with the destination: pending of them    *)
(* have been produced, and the lowest of the accumulator is number base.   *)
(* After an error of the destination the count is given up (both are 0).   *)
(*                                                                         *)
(* Names that HuffmanBitWriter or a module above it uses too end in Bits   *)
(* (and writeBytes is appendBytes), so that one module can extend both.    *)
(***************************************************************************)
EXTENDS Integers

CONSTANTS
  FlushSize, \* bufferFlushSize
  BufLen,    \* len(w.bytes)
  CodeLens,  \* lengths of Huffman codes
  LenExtra,  \* numbers of extra bits of a length code
  OffExtra,  \* numbers of extra bits of an offset code
  Fields     \* widths of the fields of block headers

MaxCodeLen == 15

ASSUME BitBufferAssumption ==
  /\ FlushSize \in Nat /\ FlushSize > 0 /\ FlushSize + 7 <= 255
  /\ BufLen \in Nat /\ FlushSize + 7 <= BufLen
  /\ CodeLens \subseteq 1..MaxCodeLen
  /\ LenExtra \subseteq 0..5
  /\ OffExtra \subseteq 0..13
  /\ Fields \subseteq 1..16

VARIABLES
  b,     \* the accumulator and the buffer: of w, or the local copies in a loop
  pc,    \* "idle", or the loop that runs: "tokens", "huff3", "huffRest"
  saved  \* w.nbits and w.nbytes while a loop works on its copies, else zero

bitVars == <<b, pc, saved>>

u8(x) == x % 256

Empty == [nbits |-> 0, nbytes |-> 0, base |-> 0, pending |-> 0,
          err |-> "nil", fault |-> "none"]

-----------------------------------------------------------------------------
\* bits |= code << (nbits & 63); nbits += l.  The code is lost if it does not
\* fit, and misplaced if the accumulator does not end where the stream does.
put(a, l) ==
  LET sound == a.base + a.nbits = a.pending /\ a.nbits + l <= 64
  IN [a EXCEPT !.nbits = u8(@ + l),
               !.pending = IF a.err = "nil" THEN @ + l ELSE 0,
               !.fault = IF a.err # "nil" \/ sound THEN @ ELSE "lost"]

\* le.Store64(w.bytes[:], nbytes, bits), of which n bytes are kept: nbytes += n,
\* and the accumulator is shifted down to keep rest bits.  The bytes kept are
\* right if they stand at their place and all their bits were there.
store64(a, n, rest) ==
  LET sound == a.base = 8 * a.nbytes /\ 8 * n + rest = a.nbits /\ a.nbits <= 64
  IN [a EXCEPT !.base = IF a.err = "nil" THEN @ + 8 * n ELSE 0,
               !.nbytes = u8(@ + n),
               !.nbits = rest,
               !.fault = IF a.nbytes + 8 > BufLen THEN "panic"
                         ELSE IF a.err # "nil" \/ sound THEN @ ELSE "lost"]

\* Mutated form of byteFlush: the bits of the last, incomplete byte are dropped.
byteFlushAll(a) == store64(a, a.nbits \div 8, 0)

\* Store, advance by whole bytes, keep nbits & 7.
byteFlush(a) == store64(a, a.nbits \div 8, a.nbits % 8)

\* Store, advance by 48 bits.
sixBytes(a) == store64(a, 6, u8(a.nbits - 48))

\* w.writer.Write(w.bytes[:n]) of all there is in the buffer.
deliver(a, ok) ==
  IF ok THEN [a EXCEPT !.base = @ - 8 * a.nbytes, !.pending = @ - 8 * a.nbytes, !.nbytes = 0]
        ELSE [a EXCEPT !.base = 0, !.pending = 0, !.nbytes = 0, !.err = "io"]

\* Mutated form of full: the margin for one more store is used up.
fullLate(a) == a.nbytes >= FlushSize + 1

full(a) == a.nbytes >= FlushSize

\* writeOutBits: after an error nbytes stays where it was.
writeOutBits(a, ok) ==
  LET s == sixBytes(a)
  IN IF ~full(s) THEN s
     ELSE IF a.err # "nil" THEN [s EXCEPT !.nbytes = a.nbytes]
     ELSE deliver(s, ok)

\* writeBits and writeCode.
writeBits(a, l, ok) ==
  LET p == put(a, l) IN IF p.nbits >= 48 THEN writeOutBits(p, ok) ELSE p

\* The accumulator, padded to a byte, follows the bytes in the buffer, and
\* everything is written: the end of flush and the beginning of writeBytes.
drain(a, ok) ==
  LET n == a.nbytes + (a.nbits + 7) \div 8
      s == [a EXCEPT !.fault = IF n > BufLen THEN "panic"
                               ELSE IF a.base = 8 * a.nbytes THEN @ ELSE "lost",
                     !.base = 0, !.pending = 0, !.nbits = 0, !.nbytes = 0]
  IN IF n = 0 \/ ok THEN s ELSE [s EXCEPT !.err = "io"]

flushBits(a, ok) == IF a.err # "nil" THEN [a EXCEPT !.nbits = 0] ELSE drain(a, ok)

appendBytes(a, ok) ==
  IF a.err # "nil" THEN a
  ELSE IF a.nbits % 8 # 0 THEN [a EXCEPT !.err = "internal"]
  ELSE drain(a, ok)

-----------------------------------------------------------------------------
(* Block headers, end of block codes, flushes, stored blocks.               *)

\* A field of a block header, or a code outside the loops.
WriteBits(l, ok) ==
  /\ pc = "idle"
  /\ b' = writeBits(b, l, ok)
  /\ UNCHANGED <<pc, saved>>

FlushBits(ok) ==
  /\ pc = "idle"
  /\ b' = flushBits(b, ok)
  /\ UNCHANGED <<pc, saved>>

\* Mutated form of StoredBlock: the lengths follow the header directly.
StoredBlockUnaligned(ok) ==
  /\ pc = "idle"
  /\ b.err = "nil"
  /\ b' = appendBytes(writeBits(writeBits(writeBits(b, 3, ok), 16, ok), 16, ok), ok)
  /\ UNCHANGED <<pc, saved>>

\* writeStoredHeader and writeBytes: the header, padding, two lengths, bytes.
StoredBlock(ok) ==
  /\ pc = "idle"
  /\ b.err = "nil"
  /\ LET header == flushBits(writeBits(b, 3, ok), ok)
     IN b' = appendBytes(writeBits(writeBits(header, 16, ok), 16, ok), ok)
  /\ UNCHANGED <<pc, saved>>

ResetBits ==
  /\ pc = "idle"
  /\ b' = [Empty EXCEPT !.fault = b.fault]
  /\ UNCHANGED <<pc, saved>>

-----------------------------------------------------------------------------
(* The loops.                                                              *)

None == [nbits |-> 0, nbytes |-> 0]
copies == saved' = [nbits |-> b.nbits, nbytes |-> b.nbytes]
written(a, ok) == IF full(a) THEN deliver(a, ok) ELSE a

\* The buffer is full and an earlier write has failed: the loop returns, and
\* its copies are dropped.
givesUp(a) == full(a) /\ a.err # "nil"
giveUp(a) ==
  /\ b' = [a EXCEPT !.nbits = saved.nbits, !.nbytes = saved.nbytes]
  /\ pc' = "idle"
  /\ saved' = None

\* Mutated form of TokensBegin: the accumulator is taken as it is.
TokensBeginAsIs(ok) ==
  /\ pc = "idle"
  /\ b.err = "nil"
  /\ copies
  /\ b' = written(b, ok)
  /\ pc' = "tokens"

\* writeTokens, up to its loop: up to 47 bits can be resident on entry.
TokensBegin(ok) ==
  /\ pc = "idle"
  /\ b.err = "nil"
  /\ copies
  /\ b' = written(byteFlush(b), ok)
  /\ pc' = "tokens"

token(a, ok) ==
  IF givesUp(a) THEN giveUp(a) ELSE b' = written(a, ok) /\ UNCHANGED <<pc, saved>>

TokenLiteral(l, ok) ==
  /\ pc = "tokens"
  /\ token(byteFlush(put(b, l)), ok)

\* Length code, its extra bits, offset code, its extra bits.
TokenMatch(lc, le, oc, oe, ok) ==
  /\ pc = "tokens"
  /\ token(byteFlush(put(put(put(put(b, lc), le), oc), oe)), ok)

\* The copies are stored back, and the end of block code (if any) written.
TokensEnd(eob, ok) ==
  /\ pc = "tokens"
  /\ b' = IF eob = 0 THEN b ELSE writeBits(b, eob, ok)
  /\ pc' = "idle"
  /\ saved' = None

\* writeBlockHuff, from where it copies bits, nbits and nbytes; also with an
\* error, if writing its header has failed.
HuffBegin ==
  /\ pc = "idle"
  /\ copies
  /\ pc' = "huff3"
  /\ UNCHANGED b

\* "We must have at least 48 bits free."
Huff3(c1, c2, c3, ok) ==
  /\ pc = "huff3"
  /\ LET a == IF b.nbits >= 8 THEN byteFlush(b) ELSE b
     IN IF givesUp(a) THEN giveUp(a)
        ELSE /\ b' = put(put(put(written(a, ok), c1), c2), c3)
             /\ UNCHANGED <<pc, saved>>

\* "Remaining...": a code at a time.
HuffRest(c, ok) ==
  /\ pc \in {"huff3", "huffRest"}
  /\ LET a == IF b.nbits >= 48 THEN sixBytes(b) ELSE b
     IN IF givesUp(a) THEN giveUp(a)
        ELSE /\ b' = put(written(a, ok), c)
             /\ pc' = "huffRest"
             /\ UNCHANGED saved

\* "Flush if needed to have space", and the end of block code (if any).
HuffEnd(eob, ok) ==
  /\ pc \in {"huff3", "huffRest"}
  /\ LET a == IF b.nbits >= 48 THEN writeOutBits(b, ok) ELSE b
     IN b' = IF eob = 0 THEN a ELSE writeBits(a, eob, ok)
  /\ pc' = "idle"
  /\ saved' = None

InitBits ==
  /\ b = Empty
  /\ pc = "idle"
  /\ saved = None

NextBits ==
  \/ ResetBits
  \/ HuffBegin
  \/ \E ok \in BOOLEAN :
       \/ FlushBits(ok)
       \/ StoredBlock(ok)
       \/ TokensBegin(ok)
       \/ \E l \in Fields \cup CodeLens : WriteBits(l, ok)
       \/ \E l \in CodeLens : TokenLiteral(l, ok) \/ HuffRest(l, ok)
       \/ \E lc, oc \in CodeLens, le \in LenExtra, oe \in OffExtra :
            TokenMatch(lc, le, oc, oe, ok)
       \/ \E c1, c2, c3 \in CodeLens : Huff3(c1, c2, c3, ok)
       \/ \E eob \in CodeLens \cup {0} : TokensEnd(eob, ok) \/ HuffEnd(eob, ok)

SpecBits == InitBits /\ [][NextBits]_bitVars

-----------------------------------------------------------------------------
(* Properties.                                                             *)

\* Every bit gets to the destination at its place: no code is shifted out of
\* the accumulator or over another, whatever was resident when a loop began
\* ("without this a match (48 bits) would overflow the accumulator and
\* silently corrupt the stream", huffman_bit_writer.go lines 886-889); no
\* byte goes out before all its bits are in it; a stored block starts at a
\* byte boundary.
BitsInPlace == b.fault # "lost" /\ b.err # "internal"

\* No store of eight bytes reaches past the buffer, after a failed write of
\* the destination included (lines 426-456, 892-903); between steps the
\* accumulator has a free bit and the buffer room for a store, which every
\* loop relies on when it begins.
StoresInBuffer ==
  /\ b.fault # "panic"
  /\ b.nbits \in 0..63 /\ b.nbytes \in 0..(FlushSize - 1)
==============================================================================
