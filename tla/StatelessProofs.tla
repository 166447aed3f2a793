---------------------------- MODULE StatelessProofs ----------------------------
(***************************************************************************)
(* Stateless for every size of block and dictionary, any alphabet, and     *)
(* destinations that fail at any point.                                    *)
(*                                                                         *)
(* The inductive invariant has two parts.  Of the bits: a block may begin  *)
(* where the input begins that is left (Steady(bw, total)), but after the  *)
(* last block of a stream.  Of the encoder's view: what is called history  *)
(* has been compressed, and a block that is not the last is longer than a  *)
(* dictionary, so that it can be the history of the next.                  *)
(***************************************************************************)
EXTENDS Stateless, HuffmanBitWriterProofs

USE StatelessAssumption

\* The sizes of the history and of the block.
Sizes ==
  /\ in \in Nat /\ total \in Nat /\ dict \in 0..MaxDict
  /\ inDict \in BOOLEAN /\ eof \in BOOLEAN
  /\ view \in [lo : Int, from : Int, hi : Int]
  /\ ret = "running" => IF inDict THEN total >= MaxDict ELSE total >= dict
  /\ EncoderViewFits

\* What the reader has, according to how far the call is.
Delivered ==
  /\ bw.dec.mode # "corrupt"
  /\ ret = "running" =>
       /\ bw.err = "nil"
       /\ in > 0 => dst = NoTokens
       /\ Written(bw, total, eof /\ in = 0)
  /\ ret = "nil" =>
       /\ bw.err = "nil" /\ bw.dec.got = total /\ ~bw.buffered
       /\ ~eof => /\ Steady(bw, total) /\ ~bw.lastHeader
                  /\ bw.dec.mode = "header" /\ bw.dec.aligned

IInv == Sizes /\ Delivered
-----------------------------------------------------------------------------
(* Blocks.                                                                 *)

\* What the encoder has done with an empty token buffer.
LEMMA EncodedInput ==
  ASSUME NEW n \in Nat, NEW t \in statelessEnc(NoTokens, n)
  PROVE  t.n = 0 \/ /\ Encoded(t, total) /\ ~t.eob /\ t.eob \in BOOLEAN
                    /\ t.n = n
<1> DEFINE none == {[NoTokens EXCEPT !.n = 0]}
           found(lits, offs) ==
             Tokens(IF NoTokens.n = 0 THEN total ELSE NoTokens.from, NoTokens.n + n,
                    NoTokens.lits \cup lits, NoTokens.offs \cup offs)
           some == {found(lits, offs) : lits \in SUBSET Literals \ {{}}, offs \in SUBSET Offsets}
<1>1. statelessEnc(NoTokens, n) = none \cup (IF n < MinEncode THEN {} ELSE some)
  BY DEF statelessEnc
<1> HIDE DEF found
<1>2. t \in none \/ t \in some
  <2> HIDE DEF none, some
  <2>1. QED
    BY <1>1
<1>3. CASE t \in none
  BY <1>3 DEF NoTokens, Tokens
<1>4. CASE t \in some
  <2>1. PICK lits \in SUBSET Literals, offs \in SUBSET Offsets : t = found(lits, offs)
    BY <1>4
  <2>2. /\ NoTokens.n = 0 /\ NoTokens.lits = {} /\ NoTokens.offs = {}
        /\ NoTokens.n + n = n /\ {} \cup lits = lits /\ {} \cup offs = offs
    BY DEF NoTokens, Tokens
  <2>3. t = Tokens(total, n, lits, offs)
    BY <2>1, <2>2 DEF found
  <2>4. QED
    BY <2>3, WindowTokens
<1> HIDE DEF none, some
<1>5. QED
  BY <1>2, <1>3, <1>4

\* Whichever way a block is encoded, the reader has its bytes.
LEMMA BlockWritten ==
  ASSUME NEW ww, total \in Nat, Steady(ww, total), NEW n \in Nat,
         NEW t, t.n = 0 \/ /\ Encoded(t, total) /\ ~t.eob /\ t.eob \in BOOLEAN
                           /\ t.n = n,
         NEW last \in BOOLEAN, NEW syncing \in BOOLEAN, n # 0 \/ ~last,
         NEW v \in blocks(ww, t, n, last, syncing)
  PROVE  Written(v, total + n, last)
<1> DEFINE storedWith(c) == storedBlock(ww, total, n, last, c)
           huffWith(lits, c) == writeBlockHuff(ww, Tokens(total, n, lits, {}), last, syncing, c)
           dynamicWith(c) == writeBlockDynamic(ww, t, last, syncing, c)
           stored == {storedWith(c) : c \in Positions}
           huff == {huffWith(lits, c) : lits \in SUBSET Literals \ {{}}, c \in Outcomes}
           dynamic == {dynamicWith(c) : c \in Outcomes}
<1>1. blocks(ww, t, n, last, syncing) = IF t.n = 0 THEN stored ELSE huff \cup dynamic
  BY DEF blocks
<1>2. v \in stored \/ (t.n # 0 /\ v \in huff) \/ (t.n # 0 /\ v \in dynamic)
  <2> HIDE DEF stored, huff, dynamic
  <2>1. QED
    BY <1>1
<1> HIDE DEF storedWith, huffWith, dynamicWith
<1>3. CASE v \in stored
  <2>1. PICK c \in Positions : v = storedWith(c)
    BY <1>3
  <2>2. v = storedBlock(ww, total, n, last, c)
    BY <2>1 DEF storedWith
  <2>3. Closed(v, total + n, last)
    <3>1. total \in Int /\ n \in Int
      OBVIOUS
    <3>2. QED
      BY <2>2, <3>1, StoredBlockKeeps
  <2>4. QED
    BY <2>3, ClosedWritten
<1>4. CASE t.n # 0 /\ v \in huff
  <2>1. PICK lits \in SUBSET Literals, c \in Outcomes : v = huffWith(lits, c)
    BY <1>4
  <2> DEFINE u == Tokens(total, n, lits, {})
  <2>2. /\ Encoded(u, total) /\ ~u.eob /\ u.n = n /\ u.offs = {}
    BY WindowTokens
  <2>3. v = writeBlockHuff(ww, u, last, syncing, c)
    BY <2>1 DEF huffWith
  <2> HIDE DEF u
  <2>4. total \in Int /\ u.n \in Int /\ u.n # 0
    BY <1>4, <2>2
  <2>5. Written(writeBlockHuff(ww, u, last, syncing, c), total + u.n, last)
    BY <2>2, <2>4, WriteBlockHuff
  <2>6. QED
    BY <2>2, <2>3, <2>5
<1>5. CASE t.n # 0 /\ v \in dynamic
  <2>1. PICK c \in Outcomes : v = dynamicWith(c)
    BY <1>5
  <2>2. v = writeBlockDynamic(ww, t, last, syncing, c)
    BY <2>1 DEF dynamicWith
  <2>3. /\ Encoded(t, total) /\ ~t.eob /\ t.eob \in BOOLEAN /\ t.n = n
        /\ total \in Int /\ t.n \in Int /\ t.n # 0
    BY <1>5
  <2>4. Written(writeBlockDynamic(ww, t, last, syncing, c), total + t.n, last)
    BY <2>3, WriteBlockDynamic
  <2>5. QED
    BY <2>2, <2>3, <2>4
<1> HIDE DEF stored, huff, dynamic
<1>6. QED
  BY <1>2, <1>3, <1>4, <1>5

\* The flush after the last block.  A last block that reuses a table does not
\* say that it is the last, and what fills the last byte is then in doubt.
LEMMA FinalFlush ==
  ASSUME NEW ww, Sound(ww), ~ww.lastHeader, ww.dec.mode \in {"header", "end"}, NEW c,
         NEW v, v = flush(ww, c)
  PROVE  /\ v.err \in Errors /\ v.dec.mode # "corrupt" /\ v.dec.got = ww.dec.got
         /\ v.err = "nil" => ~v.buffered
<1> DEFINE d == readPadding(ww.dec)
           no == FALSE
<1>1. CASE ww.err # "nil" \/ ~ww.buffered
  BY <1>1 DEF flush, payEOB, Sound, Following
<1>2. CASE ww.err = "nil" /\ ww.buffered
  <2>1. v = emit(ww, d, no)
    BY <1>2 DEF flush, payEOB
  <2>2. d.mode # "corrupt" /\ d.got = ww.dec.got
    <3>1. CASE ww.dec.aligned
      BY <3>1 DEF readPadding, Sound, Following
    <3>2. CASE ~ww.dec.aligned /\ ww.dec.mode = "end"
      BY <3>2 DEF readPadding, Sound, Following
    <3>3. CASE ~ww.dec.aligned /\ ww.dec.mode = "header"
      BY <3>3 DEF readPadding, Sound, Following
    <3>4. QED
      BY <3>1, <3>2, <3>3
  <2> HIDE DEF d, no
  <2>3. CASE ww.room = 0
    <3>1. v = [ww EXCEPT !.err = "sink"]
      BY <1>2, <2>1, <2>3 DEF emit
    <3>2. v.err = "sink" /\ v.dec = ww.dec
      BY <3>1 DEF Sound
    <3>3. QED
      BY <3>2 DEF Sound, Following, Errors
  <2>4. CASE ww.room # 0
    <3> DEFINE room == IF ww.room = NeverFails THEN ww.room ELSE ww.room - 1
    <3>1. v = [ww EXCEPT !.dec = d, !.buffered = no, !.room = room]
      BY <1>2, <2>1, <2>4 DEF emit
    <3> HIDE DEF room
    <3>2. v.err = ww.err /\ v.dec = d /\ v.buffered = no
      BY <3>1 DEF Sound
    <3>3. QED
      BY <1>2, <2>2, <3>2 DEF no, Errors
  <2>5. QED
    BY <2>3, <2>4
<1>3. QED
  BY <1>1, <1>2
-----------------------------------------------------------------------------
(* The actions.                                                            *)

LEMMA ErrorsNotRunning == ASSUME NEW e \in Errors PROVE e # "running"
BY DEF Errors

LEMMA Init_IInv == Init => IInv
<1> SUFFICES ASSUME Init PROVE IInv
  OBVIOUS
<1>1. PICK room \in Rooms : bw = newHuffmanBitWriter(room)
  BY DEF Init
<1>2. Steady(bw, 0)
  BY <1>1, NewWriter
<1>3. /\ ~bw.lastHeader /\ ~bw.buffered /\ bw.err = "nil"
      /\ bw.dec.mode = "header" /\ bw.dec.got = 0 /\ bw.dec.aligned
  BY <1>1 DEF newHuffmanBitWriter, NewDecoder
<1>4. /\ in = 0 /\ dict = 0 /\ ~inDict /\ inDict \in BOOLEAN /\ ~eof /\ eof \in BOOLEAN
      /\ total = 0 /\ ret = "nil" /\ view = [lo |-> 0, from |-> 0, hi |-> 0]
  BY DEF Init
<1>5. Sizes
  <2>1. view.lo = 0 /\ view.hi = 0 /\ view \in [lo : Int, from : Int, hi : Int]
    BY <1>4
  <2>2. 0 \in 0..MaxDict /\ 0 - 0 <= MaxBlock
    OBVIOUS
  <2>3. EncoderViewFits
    BY <1>4, <2>1, <2>2 DEF EncoderViewFits
  <2>4. QED
    BY <1>4, <2>1, <2>2, <2>3 DEF Sizes
<1>6. Delivered
  BY <1>2, <1>3, <1>4 DEF Delivered
<1>7. QED
  BY <1>5, <1>6 DEF IInv

LEMMA Call_IInv ==
  ASSUME IInv, NEW n \in Inputs, NEW atEof \in BOOLEAN, NEW dictLen \in DictSizes,
         dictLen <= total, StatelessDeflate(n, atEof, dictLen)
  PROVE  IInv'
<1>1. /\ ret = "nil" /\ ~eof
      /\ bw.err = "nil" /\ bw.dec.got = total /\ Steady(bw, total)
      /\ ~bw.lastHeader /\ bw.dec.mode = "header"
  BY DEF StatelessDeflate, IInv, Delivered
<1> DEFINE x == dropped(bw, bw.room)
<1>2. Steady(x, total)
  <2>1. Sound(bw)
    BY <1>1 DEF Steady
  <2>2. Sound(x) /\ x.err = "nil" /\ ~x.lastHeader /\ x.dec = bw.dec
    BY <2>1, Dropped
  <2>3. QED
    BY <1>1, <2>2 DEF Steady
<1>3. /\ in' = n /\ dict' = Min({dictLen, MaxDict}) /\ inDict' = FALSE /\ eof' = atEof
      /\ total' = total /\ view' = view
  BY DEF StatelessDeflate
<1>4. Sizes'
  <2>1. dictLen \in Int /\ MaxDict \in Int /\ dictLen \in Nat
    OBVIOUS
  <2>2. dict' \in {dictLen, MaxDict} /\ dict' <= dictLen /\ dict' <= MaxDict
    BY <1>3, <2>1, MinOfTwo
  <2>3. dict' \in 0..MaxDict /\ dict' <= total
    BY <2>1, <2>2 DEF IInv, Sizes
  <2>4. EncoderViewFits'
    BY <1>3 DEF IInv, Sizes, EncoderViewFits
  <2>5. in' \in Nat /\ inDict' \in BOOLEAN /\ eof' \in BOOLEAN
    BY <1>3
  <2>6. QED
    BY <1>3, <2>3, <2>4, <2>5 DEF IInv, Sizes
<1>5. Delivered'
  <2>1. CASE atEof /\ n = 0
    <3>1. PICK c \in Positions : bw' = flush(writeStoredHeader(x, 0, TRUE, c), c)
      BY <2>1 DEF StatelessDeflate, dropped
    <3> DEFINE h == writeStoredHeader(x, 0, TRUE, c)
    <3> HIDE DEF x
    <3>2. Closed(h, total, TRUE) /\ (h.err = "nil" => ~h.buffered) /\ flush(h, c) = h
      BY <1>2, FlushedEnd
    <3>3. bw' = h
      BY <3>1, <3>2
    <3> HIDE DEF h
    <3>4. ret' = bw'.err /\ eof'
      BY <2>1 DEF StatelessDeflate
    <3>5. bw'.err \in Errors /\ bw'.dec.mode # "corrupt"
      BY <3>2, <3>3 DEF Closed, Sound, Following
    <3>6. ret' # "running"
      BY <3>4, <3>5, ErrorsNotRunning
    <3>7. bw'.err = "nil" => bw'.dec.got = total' /\ ~bw'.buffered
      BY <1>3, <3>2, <3>3 DEF Closed
    <3>8. QED
      BY <3>4, <3>5, <3>6, <3>7 DEF Delivered
  <2>2. CASE ~(atEof /\ n = 0)
    <3>1. bw' = x /\ dst' = NoTokens /\ ret' = "running"
      BY <2>2 DEF StatelessDeflate, dropped
    <3>2. x.err = "nil"
      BY <1>1, Dropped DEF Steady
    <3> HIDE DEF x
    <3>3. bw'.dec.mode # "corrupt" /\ Steady(bw', total')
      BY <1>2, <1>3, <3>1 DEF Steady, Sound, Following
    <3>4. ~(eof' /\ in' = 0)
      BY <1>3, <2>2
    <3>5. Written(bw', total', eof' /\ in' = 0)
      BY <3>3, <3>4 DEF Written
    <3>6. QED
      BY <3>1, <3>2, <3>3, <3>5 DEF Delivered
  <2>3. QED
    BY <2>1, <2>2
<1>6. QED
  BY <1>4, <1>5 DEF IInv
LEMMA Block_IInv ==
  ASSUME IInv, block
  PROVE  IInv'
<1> DEFINE n == todo
           left == in - n
           last == eof /\ left = 0
           syncing == left = 0
           history == IF inDict THEN MaxDict ELSE dict
<1>1. /\ in \in Nat /\ in > 0 /\ total \in Nat /\ dict \in 0..MaxDict
      /\ inDict \in BOOLEAN /\ eof \in BOOLEAN
      /\ history \in Nat /\ history <= MaxDict /\ total >= history
  BY DEF block, IInv, Sizes
<1>2. dst = NoTokens /\ Steady(bw, total)
  <2>1. ret = "running" /\ ~(eof /\ in = 0) /\ in > 0
    BY <1>1 DEF block
  <2>2. QED
    BY <2>1 DEF IInv, Delivered, Written
<1>3. /\ n \in Nat /\ n <= in /\ n <= MaxBlock - history
      /\ n = in \/ n = MaxBlock - history
  <2> DEFINE room == MaxBlock - history
  <2>1. n = Min({in, room})
    <3>1. room = IF inDict THEN MaxBlock - MaxDict ELSE MaxBlock - dict
      OBVIOUS
    <3> HIDE DEF room
    <3>2. QED
      BY <3>1 DEF todo
  <2>2. room \in Nat /\ in \in Int /\ room \in Int
    BY <1>1
  <2> HIDE DEF room, n
  <2>3. Min({in, room}) \in {in, room} /\ Min({in, room}) <= in /\ Min({in, room}) <= room
    BY <2>2, MinOfTwo
  <2>4. n \in Nat /\ n <= in /\ n <= room /\ (n = in \/ n = room)
    BY <1>1, <2>1, <2>2, <2>3
  <2>5. QED
    BY <2>4 DEF room
<1>4. PICK t \in statelessEnc(dst, n) :
        /\ bw' \in blocks(bw, t, n, last, syncing)
        /\ dst' = IF left > 0 THEN NoTokens ELSE t
  BY DEF block
<1>5. /\ view' = [lo |-> total - history, from |-> total, hi |-> total + n]
      /\ in' = left /\ inDict' = (inDict \/ left > 0)
      /\ dict' = (IF left > 0 THEN 0 ELSE dict) /\ total' = total + n
      /\ ret' = (IF bw'.err # "nil" THEN bw'.err ELSE ret)
      /\ eof' = eof /\ ret = "running"
  BY DEF block
<1> HIDE DEF n
<1>6. left \in Nat /\ (left > 0 => n = MaxBlock - history /\ n >= MaxDict)
  BY <1>1, <1>3
<1>7. Sizes'
  <2>1. /\ view'.lo = total - history /\ view'.from = total /\ view'.hi = total + n
        /\ view' \in [lo : Int, from : Int, hi : Int]
    <3>1. total - history \in Int /\ total \in Int /\ total + n \in Int
      BY <1>1, <1>3
    <3> DEFINE lo == total - history
               hi == total + n
    <3>2. view' = [lo |-> lo, from |-> total, hi |-> hi]
      BY <1>5
    <3> HIDE DEF lo, hi
    <3>3. view'.lo = lo /\ view'.from = total /\ view'.hi = hi
      BY <3>2
    <3>4. view' \in [lo : Int, from : Int, hi : Int]
      BY <3>1, <3>2 DEF lo, hi
    <3>5. QED
      BY <3>3, <3>4 DEF lo, hi
  <2>2. view'.hi - view'.lo <= MaxBlock /\ view'.lo >= 0
    BY <1>1, <1>3, <2>1
  <2>3. inDict' /\ in' > 0 => view'.hi - view'.from >= MaxDict
    BY <1>1, <1>3, <1>5, <1>6, <2>1
  <2>4. EncoderViewFits'
    BY <2>2, <2>3 DEF EncoderViewFits
  <2>5. in' \in Nat /\ total' \in Nat /\ dict' \in 0..MaxDict
    BY <1>1, <1>3, <1>5, <1>6
  <2>6. inDict' \in BOOLEAN /\ eof' \in BOOLEAN
    BY <1>1, <1>5
  <2>7. IF inDict' THEN total' >= MaxDict ELSE total' >= dict'
    <3>1. CASE left > 0
      BY <1>1, <1>5, <1>6, <3>1
    <3>2. CASE ~(left > 0)
      <4>1. inDict' = inDict /\ dict' = dict
        BY <1>1, <1>5, <3>2
      <4>2. total' >= history
        BY <1>1, <1>3, <1>5
      <4>3. QED
        BY <4>1, <4>2
    <3>3. QED
      BY <3>1, <3>2
  <2>8. QED
    BY <2>1, <2>4, <2>5, <2>6, <2>7 DEF Sizes
<1>8. Written(bw', total', last)
  <2>1. t.n = 0 \/ /\ Encoded(t, total) /\ ~t.eob /\ t.eob \in BOOLEAN
                   /\ t.n = n
    BY <1>2, <1>3, <1>4, EncodedInput
  <2>2. last \in BOOLEAN /\ syncing \in BOOLEAN /\ (n # 0 \/ ~last)
    BY <1>1, <1>3
  <2> HIDE DEF last, syncing
  <2>3. Written(bw', total + n, last)
    BY <1>1, <1>2, <1>3, <1>4, <2>1, <2>2, BlockWritten
  <2>4. QED
    BY <1>5, <2>3
<1>9. Delivered'
  <2>1. (eof' /\ in' = 0) = last
    BY <1>5
  <2> HIDE DEF last
  <2>2. Sound(bw')
    BY <1>8 DEF Written, Steady
  <2>3. bw'.dec.mode # "corrupt" /\ bw'.err \in Errors
    BY <2>2 DEF Sound, Following
  <2>4. in' > 0 => dst' = NoTokens
    BY <1>4, <1>5
  <2>5. ret' # "nil" /\ (ret' = "running" => bw'.err = "nil")
    BY <1>5, <2>3, ErrorsNotRunning
  <2>6. Written(bw', total', eof' /\ in' = 0)
    BY <1>8, <2>1
  <2>7. QED
    BY <2>3, <2>4, <2>5, <2>6 DEF Delivered
<1>10. QED
  BY <1>7, <1>9 DEF IInv

LEMMA Finish_IInv ==
  ASSUME IInv, finish
  PROVE  IInv'
<1>1. /\ ret = "running" /\ in = 0 /\ ret' = bw'.err
      /\ UNCHANGED <<in, dict, inDict, eof, total, view>>
  BY DEF finish
<1>2. PICK c \in Positions :
        bw' = flush(IF eof THEN bw ELSE writeStoredHeader(bw, 0, FALSE, c), c)
  BY DEF finish
<1>3. /\ bw'.err \in Errors /\ bw'.dec.mode # "corrupt"
      /\ bw'.err = "nil" => /\ bw'.dec.got = total /\ ~bw'.buffered
                            /\ ~eof => /\ Steady(bw', total) /\ ~bw'.lastHeader
                                       /\ bw'.dec.mode = "header" /\ bw'.dec.aligned
  <2>1. CASE eof
    <3>1. bw' = flush(bw, c)
      BY <1>2, <2>1
    <3>2. /\ Sound(bw) /\ ~bw.lastHeader /\ bw.dec.got = total
          /\ bw.dec.mode \in {"header", "end"}
      BY <1>1, <2>1 DEF IInv, Delivered, Written
    <3>3. /\ bw'.err \in Errors /\ bw'.dec.mode # "corrupt" /\ bw'.dec.got = bw.dec.got
          /\ bw'.err = "nil" => ~bw'.buffered
      BY <3>1, <3>2, FinalFlush
    <3>4. QED
      BY <2>1, <3>2, <3>3
  <2>2. CASE ~eof
    <3> DEFINE no == FALSE
    <3>1. bw' = flush(writeStoredHeader(bw, 0, no, c), c) /\ ~no
      BY <1>2, <2>2
    <3> HIDE DEF no
    <3>2. Steady(bw, total)
      BY <1>1, <2>2 DEF IInv, Delivered, Written
    <3>3. /\ Sound(bw')
          /\ bw'.err = "nil" => /\ ~bw'.lastHeader /\ ~bw'.buffered
                                /\ bw'.dec.aligned /\ bw'.dec.got = total
                                /\ bw'.dec.mode = "header"
      BY <3>1, <3>2, Marker
    <3>4. QED
      BY <2>2, <3>3 DEF Steady, Sound, Following
  <2>3. QED
    BY <2>1, <2>2
<1>4. Delivered'
  BY <1>1, <1>3, ErrorsNotRunning DEF Delivered
<1>5. ret' # "running"
  BY <1>1, <1>3, ErrorsNotRunning
<1>6. EncoderViewFits'
  BY <1>1, <1>5 DEF IInv, Sizes, EncoderViewFits
<1>7. Sizes'
  BY <1>1, <1>5, <1>6 DEF IInv, Sizes
<1>8. QED
  BY <1>4, <1>7 DEF IInv

\* Every call, every block and every final flush keeps the invariant.
THEOREM Inductive == IInv /\ [Next]_vars => IInv'
<1> SUFFICES ASSUME IInv, [Next]_vars PROVE IInv'
  OBVIOUS
<1>1. ASSUME NEW n \in Inputs, NEW atEof \in BOOLEAN, NEW dictLen \in DictSizes,
             dictLen <= total, StatelessDeflate(n, atEof, dictLen)
      PROVE  IInv'
  BY <1>1, Call_IInv
<1>2. CASE block
  BY <1>2, Block_IInv
<1>3. CASE finish
  BY <1>3, Finish_IInv
<1>4. CASE UNCHANGED vars
  BY <1>4 DEF vars, IInv, Sizes, Delivered, EncoderViewFits
<1>5. QED
  BY <1>1, <1>2, <1>3, <1>4 DEF Next, Done

-----------------------------------------------------------------------------
(* Theorems.                                                               *)

\* The invariant holds of every behaviour.
THEOREM Invariance == Spec => []IInv
<1>1. Init => IInv
  BY Init_IInv
<1>2. IInv /\ [Next]_vars => IInv'
  BY Inductive
<1>3. QED
  BY <1>1, <1>2, PTL DEF Spec

\* Calls to StatelessDeflate that share a destination do not mislead its
\* reader, although the pooled bit writer keeps its tables between them.
THEOREM AlwaysFollowed == Spec => []Followed
<1>1. IInv => Followed
  BY DEF IInv, Delivered, Followed
<1>2. QED
  BY <1>1, Invariance, PTL

\* A call that returns nil has handed over everything, and ends where another
\* may go on.
THEOREM AlwaysFlushed == Spec => []FlushedOnReturn
<1>1. IInv => FlushedOnReturn
  BY DEF IInv, Delivered, FlushedOnReturn
<1>2. QED
  BY <1>1, Invariance, PTL

\* statelessEnc is never given more than its positions can hold, nor a history
\* that has not been compressed.
THEOREM ViewAlwaysFits == Spec => []EncoderViewFits
<1>1. IInv => EncoderViewFits
  BY DEF IInv, Sizes
<1>2. QED
  BY <1>1, Invariance, PTL
=============================================================================
