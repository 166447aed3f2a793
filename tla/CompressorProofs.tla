--------------------------- MODULE CompressorProofs ---------------------------
(***************************************************************************)
(* Compressor for every window size, every threshold within the            *)
(* assumptions, any alphabet, and destinations that fail at any point; at  *)
(* levels 1-6 for the windows that are Searchable, since with smaller ones *)
(* the code does write streams that no decoder can follow.                 *)
(*                                                                         *)
(* The inductive invariant joins the window to the reader: where the one   *)
(* ends the other begins (Steady(w, window)), until the stream is closed.  *)
(* Every block keeps it, by the lemmas of HuffmanBitWriterProofs.          *)
(***************************************************************************)
EXTENDS Compressor, HuffmanBitWriterProofs

USE CompressorAssumption

Calls == [kind : {"Write", "Flush", "Close", "Reset"}, left : Nat,
          ret : Errors \cup {"running", "panic"}, passes : Nat]

\* What a call that runs has made sure of.
Running ==
  call.ret = "running" =>
    /\ err = "nil"
    /\ call.kind = "Write" => call.left > 0
    /\ call.kind \in {"Flush", "Close"} => sync
    /\ call.kind # "Reset"

\* The inductive invariant.
IInv ==
  /\ tokens = NoTokens
  /\ windowEnd \in 0..BlockSize
  /\ total \in Int
  /\ sync \in BOOLEAN
  /\ err \in Errors
  /\ level \in {"store", "huff", "fast"}
  /\ Searchable
  /\ call \in Calls
  /\ Running
  /\ IF closed THEN windowEnd = 0 /\ w.err = "nil" /\ Closed(w, total, TRUE) ELSE Steady(w, window)
  /\ FlushDelivers

-----------------------------------------------------------------------------
\* What a step leaves behind that has turned the whole window into a block, or
\* found it empty.
Emptied(s) ==
  /\ s.windowEnd = 0 /\ s.tokens = NoTokens /\ s.err \in Errors
  /\ Steady(s.w, total)

LEMMA BlockWritten ==
  ASSUME NEW ww, Steady(ww, total)
  PROVE  Emptied(blockWritten(ww))
BY DEF blockWritten, Emptied, Steady, Sound

LEMMA StoredWindow ==
  ASSUME IInv, ~closed, windowEnd # 0, NEW c
  PROVE  Emptied(blockWritten(storedBlock(w, window, windowEnd, FALSE, c)))
<1> DEFINE no == FALSE
           x == storedBlock(w, window, windowEnd, no, c)
<1>1. /\ window \in Int /\ windowEnd \in Int /\ Steady(w, window)
      /\ windowEnd # 0 \/ ~no
      /\ window + windowEnd = total
  BY DEF IInv, window
<1> HIDE DEF no
<1>2. Closed(x, window + windowEnd, no)
  BY <1>1, StoredBlockKeeps
<1> HIDE DEF x
<1>3. Steady(x, total)
  BY <1>1, <1>2, ClosedSteady DEF no
<1>4. QED
  BY <1>3, BlockWritten DEF x, no

LEMMA HuffWindow ==
  ASSUME IInv, ~closed, windowEnd # 0, NEW syncing \in BOOLEAN, NEW s \in huffBlock(syncing)
  PROVE  Emptied(s)
<1> DEFINE block(lits, c) ==
             blockWritten(writeBlockHuff(w, Tokens(window, windowEnd, lits, {}), FALSE, syncing, c))
<1>0. huffBlock(syncing) = {block(lits, c) : lits \in SUBSET Literals \ {{}}, c \in Outcomes}
  BY DEF huffBlock
<1> HIDE DEF block
<1>1. PICK lits \in SUBSET Literals, c \in Outcomes : s = block(lits, c)
  BY <1>0
<1> DEFINE t == Tokens(window, windowEnd, lits, {})
           no == FALSE
           x == writeBlockHuff(w, t, no, syncing, c)
<1>2. /\ Encoded(t, window) /\ ~t.eob /\ t.n = windowEnd /\ t.offs = {}
  BY WindowTokens
<1>3. s = blockWritten(x)
  BY <1>1 DEF block
<1> HIDE DEF t, no
<1>4. /\ window \in Int /\ windowEnd \in Int /\ Steady(w, window)
      /\ window + windowEnd = total /\ t.n \in Int /\ t.n # 0
  BY <1>2 DEF IInv, window
<1>5. Written(x, window + t.n, no)
  BY <1>2, <1>4, WriteBlockHuff
<1> HIDE DEF x
<1>6. Steady(x, total)
  BY <1>2, <1>4, <1>5 DEF Written, no
<1>7. QED
  BY <1>3, <1>6, BlockWritten

LEMMA DynamicWindow ==
  ASSUME IInv, ~closed, windowEnd # 0, NEW t, Encoded(t, window), ~t.eob, t.eob \in BOOLEAN,
         t.n = windowEnd, NEW c
  PROVE  Emptied(blockWritten(writeBlockDynamic(w, t, FALSE, sync, c)))
<1> DEFINE no == FALSE
           x == writeBlockDynamic(w, t, no, sync, c)
<1>1. /\ window \in Int /\ windowEnd \in Int /\ Steady(w, window)
      /\ window + windowEnd = total /\ t.n \in Int /\ t.n # 0
      /\ no \in BOOLEAN /\ sync \in BOOLEAN
  BY DEF IInv, window
<1> HIDE DEF no
<1>2. Written(x, window + t.n, no)
  BY <1>1, WriteBlockDynamic
<1> HIDE DEF x
<1>3. Steady(x, total)
  BY <1>1, <1>2 DEF Written, no
<1>4. QED
  BY <1>3, BlockWritten DEF x, no

\* What Encode makes of a window that is not too short.
LEMMA EncodeWindow ==
  ASSUME NEW n \in Int, n >= MinEncode, NEW from, NEW t \in Encode(NoTokens, from, n)
  PROVE  t.n = 0 \/ /\ Encoded(t, from) /\ ~t.eob /\ t.eob \in BOOLEAN
                    /\ t.n = n
<1>1. CASE t = NoTokens
  BY <1>1 DEF NoTokens, Tokens
<1>2. CASE t # NoTokens
  <2> DEFINE found(lits, offs) ==
               [Tokens(IF NoTokens.n = 0 THEN from ELSE NoTokens.from, NoTokens.n + n,
                       NoTokens.lits \cup lits, NoTokens.offs \cup offs)
                  EXCEPT !.filled = NoTokens.filled]
             short == {[NoTokens EXCEPT !.n = n, !.filled = FALSE]}
             long == {NoTokens} \cup
                     {found(lits, offs) : lits \in SUBSET Literals \ {{}}, offs \in SUBSET Offsets}
  <2>0. Encode(NoTokens, from, n) = long
    <3>1. Encode(NoTokens, from, n) = IF n < MinEncode THEN short ELSE long
      BY DEF Encode
    <3> HIDE DEF short, long
    <3>2. QED
      BY <3>1
  <2> HIDE DEF found
  <2>1. PICK lits \in SUBSET Literals, offs \in SUBSET Offsets : t = found(lits, offs)
    BY <1>2, <2>0
  <2>2. /\ NoTokens.n = 0 /\ NoTokens.lits = {} /\ NoTokens.offs = {} /\ NoTokens.filled = TRUE
        /\ NoTokens.n + n = n /\ {} \cup lits = lits /\ {} \cup offs = offs
    BY DEF NoTokens, Tokens
  <2>3. t = [Tokens(from, n, lits, offs) EXCEPT !.filled = TRUE]
    BY <2>1, <2>2 DEF found
  <2>4. t = Tokens(from, n, lits, offs)
    <3> DEFINE yes == TRUE
               no == FALSE
    <3>1. /\ t = [Tokens(from, n, lits, offs) EXCEPT !.filled = yes]
          /\ Tokens(from, n, lits, offs) =
               [from |-> from, n |-> n, lits |-> lits, offs |-> offs, eob |-> no, filled |-> yes]
      BY <2>3 DEF Tokens
    <3> HIDE DEF yes, no
    <3>2. QED
      BY <3>1
  <2>5. QED
    BY <2>4, WindowTokens
<1>3. QED
  BY <1>1, <1>2

LEMMA Unchanged ==
  ASSUME IInv, ~closed, windowEnd = 0
  PROVE  Emptied(unchanged)
<1>1. total - 0 = total /\ window = total - 0
  BY DEF IInv, window
<1>2. QED
  BY <1>1 DEF IInv, unchanged, Emptied

\* Every step that is due empties the window.
LEMMA StepEmpties ==
  ASSUME IInv, ~closed, sync \/ windowEnd = BlockSize, NEW s \in step
  PROVE  Emptied(s)
<1> DEFINE storedWindow(c) == blockWritten(storedBlock(w, window, windowEnd, FALSE, c))
           stored == {storedWindow(c) : c \in Positions}
<1>1. ASSUME windowEnd # 0, s \in stored
      PROVE  Emptied(s)
  <2> HIDE DEF storedWindow
  <2>1. PICK c \in Positions : s = storedWindow(c)
    BY <1>1
  <2>2. QED
    BY <1>1, <2>1, StoredWindow DEF storedWindow
<1>2. /\ windowEnd \in Int /\ windowEnd >= 0 /\ windowEnd <= BlockSize
      /\ BlockSize \in Int /\ BlockSize > 0 /\ sync \in BOOLEAN
  BY DEF IInv
<1>3. CASE level = "store"
  <2>1. step = IF windowEnd > 0 /\ (windowEnd = BlockSize \/ sync) THEN stored ELSE {unchanged}
    BY <1>3 DEF step, store
  <2> HIDE DEF stored
  <2>2. CASE windowEnd > 0
    BY <1>1, <1>2, <2>1, <2>2
  <2>3. CASE ~(windowEnd > 0)
    BY <1>2, <2>1, <2>3, Unchanged
  <2>4. QED
    BY <2>2, <2>3
<1>4. CASE level = "huff"
  <2>1. step = IF (windowEnd < BlockSize /\ ~sync) \/ windowEnd = 0 THEN {unchanged}
               ELSE huffBlock(sync)
    BY <1>4 DEF step, storeHuff
  <2>2. CASE windowEnd = 0
    BY <2>1, <2>2, Unchanged
  <2>3. CASE windowEnd # 0
    BY <1>2, <2>1, <2>3, HuffWindow
  <2>4. QED
    BY <2>2, <2>3
<1>5. CASE level = "fast"
  <2> DEFINE dynamicWindow(t, c) == blockWritten(writeBlockDynamic(w, t, FALSE, sync, c))
             dynamic(t) == {dynamicWindow(t, c) : c \in Outcomes}
             blocksOf(t) == IF t.n = 0 THEN stored
                            ELSE dynamic(t) \cup (IF t.filled THEN huffBlock(sync) ELSE {})
             encoded == UNION {blocksOf(t) : t \in Encode(tokens, window, windowEnd)}
             small == huffBlock(TRUE)
             wait == windowEnd < BlockSize /\ (~sync \/ windowEnd = 0)
             tiny == windowEnd < BlockSize /\ sync /\ windowEnd \in 1..StoredSize
             short == windowEnd < BlockSize /\ sync /\ windowEnd \in (StoredSize + 1)..(HuffSize - 1)
  <2>1. step = CASE wait -> {unchanged} [] tiny -> stored [] short -> small [] OTHER -> encoded
    BY <1>5 DEF step, storeFast
  <2>2. /\ wait \/ tiny \/ short \/ (~wait /\ ~tiny /\ ~short)
        /\ tiny => ~wait /\ windowEnd # 0
        /\ short => ~wait /\ windowEnd # 0
        /\ tiny => ~short
        /\ wait => windowEnd = 0
        /\ ~wait => windowEnd # 0
        /\ ~wait /\ ~tiny /\ ~short => windowEnd >= MinEncode
    <3>1. /\ MinEncode \in Int /\ HuffSize \in Int /\ StoredSize \in Int
          /\ MinEncode <= BlockSize
      BY <1>5 DEF IInv, Searchable
    <3>2. QED
      BY <1>2, <3>1
  <2>3. /\ wait => step = {unchanged}
        /\ tiny => step = stored
        /\ short => step = small
        /\ ~wait /\ ~tiny /\ ~short => step = encoded
    <3> HIDE DEF wait, tiny, short, small, stored, encoded
    <3>1. QED
      BY <2>1, <2>2
  <2>4. CASE wait
    <3> HIDE DEF wait
    <3>1. step = {unchanged} /\ windowEnd = 0
      BY <2>2, <2>3, <2>4
    <3>2. QED
      BY <3>1, Unchanged
  <2>5. CASE tiny
    <3> HIDE DEF tiny, stored
    <3>1. step = stored /\ windowEnd # 0
      BY <2>2, <2>3, <2>5
    <3>2. QED
      BY <1>1, <3>1
  <2>6. CASE short
    <3> DEFINE yes == TRUE
    <3>1. small = huffBlock(yes) /\ yes \in BOOLEAN
      OBVIOUS
    <3> HIDE DEF short, small, yes
    <3>2. step = huffBlock(yes) /\ windowEnd # 0
      BY <2>2, <2>3, <2>6, <3>1
    <3>3. QED
      BY <3>1, <3>2, HuffWindow
  <2>7. CASE ~wait /\ ~tiny /\ ~short
    <3>1. step = encoded
      BY <2>3, <2>7
    <3>2. windowEnd >= MinEncode /\ windowEnd # 0
      BY <2>2, <2>7
    <3> HIDE DEF wait, tiny, short, small
    <3> HIDE DEF blocksOf
    <3>3. PICK t \in Encode(tokens, window, windowEnd) : s \in blocksOf(t)
      BY <3>1
    <3>4. t.n = 0 \/ /\ Encoded(t, window) /\ ~t.eob /\ t.eob \in BOOLEAN
                     /\ t.n = windowEnd
      <4>1. t \in Encode(NoTokens, window, windowEnd)
        BY <3>3 DEF IInv
      <4>2. QED
        BY <1>2, <3>2, <4>1, EncodeWindow
    <3>5. CASE s \in stored
      BY <1>1, <3>2, <3>5
    <3>6. CASE t.n # 0 /\ s \in dynamic(t)
      <4> HIDE DEF dynamicWindow
      <4>1. PICK c \in Outcomes : s = dynamicWindow(t, c)
        BY <3>6
      <4>2. QED
        BY <3>2, <3>4, <3>6, <4>1, DynamicWindow DEF dynamicWindow
    <3>7. CASE s \in huffBlock(sync)
      BY <1>2, <3>2, <3>7, HuffWindow
    <3>8. QED
      <4> HIDE DEF stored, dynamic
      <4>1. s \in stored \/ (t.n # 0 /\ s \in dynamic(t)) \/ s \in huffBlock(sync)
        BY <3>3 DEF blocksOf
      <4>2. QED
        BY <3>5, <3>6, <3>7, <4>1
  <2>8. QED
    BY <2>4, <2>5, <2>6, <2>7
<1>6. QED
  BY <1>3, <1>4, <1>5 DEF IInv
-----------------------------------------------------------------------------
(* The actions.                                                            *)

\* What one pass of write's loop does: n bytes more fit behind what the step
\* has left.
Pass(s, n) ==
  /\ n \in Nat /\ n > 0 /\ n <= call.left
  /\ s.windowEnd \in Nat /\ s.windowEnd + n <= BlockSize
  /\ s.tokens = NoTokens /\ s.err \in Errors /\ Steady(s.w, total - s.windowEnd)
  /\ w' = s.w /\ windowEnd' = s.windowEnd + n /\ tokens' = s.tokens
  /\ err' = s.err /\ total' = total + n
  /\ call' = IF s.err # "nil" THEN Call("Write", call.left - n, s.err)
             ELSE IF call.left = n THEN Call("Write", 0, "nil")
             ELSE [call EXCEPT !.left = call.left - n, !.passes = call.passes + 1]

LEMMA CallFields ==
  ASSUME NEW kind \in {"Write", "Flush", "Close", "Reset"}, NEW left \in Nat,
         NEW ret \in Errors \cup {"running", "panic"}
  PROVE  /\ Call(kind, left, ret) \in Calls
         /\ Call(kind, left, ret).kind = kind /\ Call(kind, left, ret).left = left
         /\ Call(kind, left, ret).ret = ret /\ Call(kind, left, ret).passes = 0
BY DEF Call, Calls

LEMMA NotRunning == ASSUME NEW e \in Errors PROVE e # "running"
BY DEF Errors

LEMMA WriteLoopPass ==
  ASSUME IInv, writeLoop
  PROVE  \E s, n : Pass(s, n)
<1> DEFINE fits(s) == Min({call.left, BlockSize - s.windowEnd})
<1> DEFINE due == IF windowEnd = BlockSize \/ sync THEN step ELSE {unchanged}
           body(s) == /\ w' = s.w
                      /\ windowEnd' = s.windowEnd + fits(s)
                      /\ tokens' = s.tokens
                      /\ err' = s.err
                      /\ total' = total + fits(s)
                      /\ call' = IF s.err # "nil" THEN Call("Write", call.left - fits(s), s.err)
                                 ELSE IF call.left = fits(s) THEN Call("Write", 0, "nil")
                                 ELSE [call EXCEPT !.left = call.left - fits(s),
                                                   !.passes = call.passes + 1]
<1>0. \E s \in due : body(s)
  BY Zenon DEF writeLoop
<1> HIDE DEF due, body
<1>1. PICK s \in due : body(s)
  BY <1>0
<1>2. ~closed /\ call.left \in Nat /\ call.left > 0
  BY DEF writeLoop, closed, IInv, Running, Calls
<1>3. /\ s.windowEnd \in Nat /\ s.windowEnd < BlockSize
      /\ s.tokens = NoTokens /\ s.err \in Errors /\ Steady(s.w, total - s.windowEnd)
  <2>1. CASE windowEnd = BlockSize \/ sync
    <3>1. s \in step
      BY <1>1, <2>1 DEF due
    <3>2. Emptied(s)
      BY <1>2, <2>1, <3>1, StepEmpties
    <3>3. total - 0 = total
      BY DEF IInv
    <3>4. QED
      BY <3>2, <3>3 DEF Emptied
  <2>2. CASE ~(windowEnd = BlockSize \/ sync)
    <3>1. s = unchanged
      BY <1>1, <2>2 DEF due
    <3>2. /\ s.w = w /\ s.windowEnd = windowEnd /\ s.tokens = tokens /\ s.err = err
      BY <3>1 DEF unchanged
    <3>3. QED
      BY <1>2, <2>2, <3>2 DEF IInv, window
  <2>3. QED
    BY <2>1, <2>2
<1>4. /\ fits(s) \in Nat /\ fits(s) > 0 /\ fits(s) <= call.left
      /\ s.windowEnd + fits(s) <= BlockSize
  <2>1. BlockSize - s.windowEnd \in Int /\ call.left \in Int
    BY <1>2, <1>3
  <2> DEFINE room == BlockSize - s.windowEnd
  <2>2. /\ Min({call.left, room}) \in {call.left, room}
        /\ Min({call.left, room}) <= call.left /\ Min({call.left, room}) <= room
    <3> HIDE DEF room
    <3>1. room \in Int
      BY <2>1 DEF room
    <3>2. QED
      BY <2>1, <3>1, MinOfTwo
  <2>3. QED
    BY <1>2, <1>3, <2>2
<1> HIDE DEF fits
<1>5. Pass(s, fits(s))
  BY <1>1, <1>3, <1>4 DEF Pass, body
<1>6. QED
  BY <1>5

LEMMA Init_IInv == Init /\ Searchable => IInv
<1> SUFFICES ASSUME Init, Searchable PROVE IInv
  OBVIOUS
<1>1. PICK room \in Rooms : w = newHuffmanBitWriter(room)
  BY DEF Init
<1>2. Steady(w, 0)
  BY <1>1, NewWriter
<1>3. window = 0
  BY DEF Init, window
<1>4. call \in Calls /\ ~closed /\ call.ret = "nil" /\ call.kind = "Reset"
  <2>1. call = Call("Reset", 0, "nil") /\ "nil" \in Errors
    BY DEF Init, Errors
  <2>2. QED
    BY <2>1, CallFields DEF closed
<1>5. /\ tokens = NoTokens /\ windowEnd \in 0..BlockSize /\ total \in Int /\ sync \in BOOLEAN
      /\ err \in Errors /\ level \in Levels
  <2>1. /\ tokens = NoTokens /\ windowEnd = 0 /\ total = 0 /\ sync = FALSE
        /\ err = "nil" /\ level \in Levels
    BY DEF Init
  <2>2. sync \in BOOLEAN
    BY <2>1
  <2>3. windowEnd \in 0..BlockSize /\ total \in Int
    BY <2>1
  <2>4. err \in Errors
    BY <2>1 DEF Errors
  <2>5. QED
    BY <2>1, <2>2, <2>3, <2>4
<1>6. Steady(w, window)
  BY <1>2, <1>3
<1>7. Running /\ FlushDelivers
  BY <1>4 DEF Running, FlushDelivers
<1>8. level \in {"store", "huff", "fast"}
  BY <1>5
<1>9. QED
  BY <1>4, <1>5, <1>6, <1>7, <1>8 DEF IInv

LEMMA Write_IInv ==
  ASSUME IInv, NEW n \in Writes, Write(n)
  PROVE  IInv'
<1>1. n \in Nat /\ n > 0
  OBVIOUS
<1>2. /\ call' \in Calls /\ call'.kind = "Write"
      /\ call'.ret = "running" => err = "nil" /\ call'.left = n
  <2>1. CASE err # "nil"
    <3>1. call' = Call("Write", 0, err) /\ err \in Errors
      BY <2>1 DEF Write, IInv
    <3>2. /\ call' \in Calls /\ call'.kind = "Write" /\ call'.left = 0
          /\ call'.ret = err /\ call'.passes = 0
      BY <3>1, CallFields
    <3>3. call'.ret # "running" /\ call'.ret # "nil"
      BY <2>1, <3>1, <3>2, NotRunning
    <3>4. QED
      BY <3>2, <3>3
  <2>2. CASE err = "nil"
    <3>1. call' = Call("Write", n, "running")
      BY <2>2 DEF Write
    <3>2. /\ call' \in Calls /\ call'.kind = "Write" /\ call'.left = n
          /\ call'.ret = "running" /\ call'.passes = 0
      BY <1>1, <3>1, CallFields
    <3>3. QED
      BY <2>2, <3>2
  <2>3. QED
    BY <2>1, <2>2
<1>3. ~closed /\ ~closed' /\ window' = window
  BY <1>2 DEF Write, closed, window
<1>4. QED
  BY <1>1, <1>2, <1>3 DEF Write, IInv, Running, FlushDelivers, Searchable

LEMMA WriteLoop_IInv ==
  ASSUME IInv, writeLoop
  PROVE  IInv'
<1>1. PICK s, n : Pass(s, n)
  BY WriteLoopPass
<1>2. call \in Calls /\ call.kind = "Write" /\ call.ret = "running"
  BY DEF writeLoop, IInv
<1>3. /\ call' \in Calls /\ call'.kind = "Write"
      /\ call'.ret = "running" => s.err = "nil" /\ call'.left > 0
  <2>1. CASE s.err # "nil"
    <3>1. /\ call' = Call("Write", call.left - n, s.err)
          /\ call.left - n \in Nat /\ s.err \in Errors
      BY <1>1, <1>2, <2>1 DEF Pass, Calls
    <3>2. /\ call' \in Calls /\ call'.kind = "Write" /\ call'.left = call.left - n
          /\ call'.ret = s.err /\ call'.passes = 0
      BY <3>1, CallFields
    <3>3. call'.ret # "running"
      BY <3>1, <3>2, NotRunning
    <3>4. QED
      BY <3>2, <3>3
  <2>2. CASE s.err = "nil" /\ call.left = n
    <3>1. call' = Call("Write", 0, "nil") /\ "nil" \in Errors
      BY <1>1, <2>2 DEF Pass, Errors
    <3>2. QED
      BY <3>1, CallFields
  <2>3. CASE s.err = "nil" /\ call.left # n
    <3>1. call' = [call EXCEPT !.left = call.left - n, !.passes = call.passes + 1]
      BY <1>1, <2>3 DEF Pass
    <3>2. call.left - n \in Nat /\ call.left - n > 0 /\ call.passes + 1 \in Nat
      BY <1>1, <1>2, <2>3 DEF Pass, Calls
    <3>3. QED
      BY <1>2, <2>3, <3>1, <3>2 DEF Calls
  <2>4. QED
    BY <2>1, <2>2, <2>3
<1>4. /\ windowEnd' \in 0..BlockSize /\ total' \in Int /\ window' = total - s.windowEnd
  BY <1>1 DEF Pass, IInv, window
<1>5. ~closed'
  BY <1>3 DEF closed
<1>6. QED
  BY <1>1, <1>3, <1>4, <1>5 DEF Pass, IInv, Running, FlushDelivers, writeLoop, Searchable

LEMMA Flush_IInv ==
  ASSUME IInv, Flush
  PROVE  IInv'
<1>1. /\ call' \in Calls /\ call'.kind = "Flush" /\ call'.ret # "nil"
      /\ call'.ret = "running" => err = "nil"
  <2>1. CASE err # "nil"
    <3>1. call' = Call("Flush", 0, err) /\ err \in Errors
      BY <2>1 DEF Flush, IInv
    <3>2. /\ call' \in Calls /\ call'.kind = "Flush" /\ call'.left = 0
          /\ call'.ret = err /\ call'.passes = 0
      BY <3>1, CallFields
    <3>3. call'.ret # "running" /\ call'.ret # "nil"
      BY <2>1, <3>1, <3>2, NotRunning
    <3>4. QED
      BY <3>2, <3>3
  <2>2. CASE err = "nil"
    <3>1. call' = Call("Flush", 0, "running")
      BY <2>2 DEF Flush
    <3>2. QED
      BY <2>2, <3>1, CallFields
  <2>3. QED
    BY <2>1, <2>2
<1>2. ~closed /\ ~closed' /\ window' = window
  BY <1>1 DEF Flush, closed, window
<1>3. QED
  BY <1>1, <1>2 DEF Flush, IInv, Running, FlushDelivers, Searchable

LEMMA Close_IInv ==
  ASSUME IInv, Close
  PROVE  IInv'
<1>1. /\ call' \in Calls /\ call'.kind = "Close" /\ call'.ret # "nil"
      /\ call'.ret = "running" => err = "nil"
  <2>1. CASE err # "nil"
    <3>1. call' = Call("Close", 0, err) /\ err \in Errors
      BY <2>1 DEF Close, IInv
    <3>2. /\ call' \in Calls /\ call'.kind = "Close" /\ call'.left = 0
          /\ call'.ret = err /\ call'.passes = 0
      BY <3>1, CallFields
    <3>3. call'.ret # "running" /\ call'.ret # "nil"
      BY <2>1, <3>1, <3>2, NotRunning
    <3>4. QED
      BY <3>2, <3>3
  <2>2. CASE err = "nil"
    <3>1. call' = Call("Close", 0, "running")
      BY <2>2 DEF Close
    <3>2. QED
      BY <2>2, <3>1, CallFields
  <2>3. QED
    BY <2>1, <2>2
<1>2. ~closed /\ ~closed' /\ window' = window
  BY <1>1 DEF Close, closed, window
<1>3. sync' \in BOOLEAN /\ (call'.ret = "running" => sync')
  BY <1>1 DEF Close
<1>4. QED
  BY <1>1, <1>2, <1>3 DEF Close, IInv, Running, FlushDelivers, Searchable
LEMMA FlushStep_IInv ==
  ASSUME IInv, FlushStep
  PROVE  IInv'
<1> DEFINE no == FALSE
           marked(s, c) == flush(writeStoredHeader(s.w, 0, no, c), c)
<1>1. PICK s \in step, c \in Positions :
        /\ w' = (IF s.err = "nil" THEN marked(s, c) ELSE s.w)
        /\ windowEnd' = s.windowEnd /\ tokens' = s.tokens
        /\ err' = IF s.err = "nil" THEN marked(s, c).err ELSE s.err
        /\ call' = [call EXCEPT !.ret = err']
  BY Zenon DEF FlushStep
<1>2. /\ call \in Calls /\ call.kind = "Flush" /\ sync /\ ~closed
      /\ sync' = FALSE /\ UNCHANGED <<total, level>>
  BY DEF FlushStep, IInv, Running, closed
<1>3. Emptied(s)
  BY <1>2, StepEmpties
<1>4. s.windowEnd = 0 /\ s.tokens = NoTokens /\ s.err \in Errors /\ Steady(s.w, total)
  BY <1>3 DEF Emptied
<1> DEFINE f == marked(s, c)
<1>5. f = flush(writeStoredHeader(s.w, 0, no, c), c) /\ ~no
  OBVIOUS
<1> HIDE DEF marked, f, no
<1>7. /\ Sound(f)
      /\ f.err = "nil" => /\ ~f.lastHeader /\ ~f.buffered
                          /\ f.dec.aligned /\ f.dec.got = total
                          /\ f.dec.mode = "header"
  BY <1>4, <1>5, Marker
<1>8. Steady(w', total)
  <2>1. CASE s.err = "nil"
    <3>1. w' = f
      BY <1>1, <2>1 DEF f
    <3>2. QED
      BY <1>7, <3>1 DEF Steady
  <2>2. CASE s.err # "nil"
    BY <1>1, <1>4, <2>2
  <2>3. QED
    BY <2>1, <2>2
<1>9. err' \in Errors /\ (err' = "nil" => w' = f /\ f.err = "nil")
  BY <1>1, <1>4, <1>7 DEF f, Sound
<1>10. call' \in Calls /\ call'.kind = "Flush" /\ call'.ret = err'
  <2>1. call' = [call EXCEPT !.ret = err'] /\ err' \in Errors \cup {"running", "panic"}
    BY <1>1, <1>9
  <2>2. QED
    BY <1>2, <2>1 DEF Calls
<1>11. FlushDelivers'
  BY <1>2, <1>7, <1>9, <1>10 DEF FlushDelivers
<1>12. call'.ret # "running" /\ ~closed'
  BY <1>9, <1>10, NotRunning DEF closed
<1>13. /\ total' \in Int /\ window' = total /\ windowEnd' \in 0..BlockSize /\ sync' \in BOOLEAN
  <2>1. windowEnd' = 0 /\ total' = total /\ total \in Int
    BY <1>1, <1>2, <1>4 DEF IInv
  <2>2. windowEnd' \in 0..BlockSize /\ total' \in Int /\ total - 0 = total
    BY <2>1
  <2>3. QED
    BY <1>2, <2>1, <2>2 DEF window
<1>14. level' \in {"store", "huff", "fast"} /\ Searchable' /\ tokens' = NoTokens
  BY <1>1, <1>2, <1>4 DEF IInv, Searchable
<1>15. QED
  BY <1>8, <1>9, <1>10, <1>11, <1>12, <1>13, <1>14 DEF IInv, Running

LEMMA CloseStep_IInv ==
  ASSUME IInv, CloseStep
  PROVE  IInv'
<1> DEFINE yes == TRUE
           header(s, c) == writeStoredHeader(s.w, 0, yes, c)
           done(s, c) == flush(header(s, c), c)
           ended(s, c) == [reset(done(s, c), 0) EXCEPT !.dec = done(s, c).dec]
           left(s, c) == IF s.err # "nil" THEN s.w
                         ELSE IF header(s, c).err # "nil" THEN header(s, c) ELSE ended(s, c)
<1>1. PICK s \in step, c \in Positions :
        /\ w' = left(s, c)
        /\ windowEnd' = s.windowEnd /\ tokens' = s.tokens
        /\ err' = s.err
        /\ call' = [call EXCEPT !.ret = IF s.err # "nil" THEN s.err ELSE left(s, c).err]
  BY Zenon DEF CloseStep
<1>2. /\ call \in Calls /\ call.kind = "Close" /\ sync /\ ~closed
      /\ UNCHANGED <<sync, total, level>>
  BY DEF CloseStep, IInv, Running, closed
<1>3. Emptied(s)
  BY <1>2, StepEmpties
<1>4. s.windowEnd = 0 /\ s.tokens = NoTokens /\ s.err \in Errors /\ Steady(s.w, total)
  BY <1>3 DEF Emptied
<1> DEFINE h == header(s, c)
           e == ended(s, c)
<1>5. Closed(h, total, TRUE) /\ (h.err = "nil" => ~h.buffered) /\ flush(h, c) = h
  BY <1>4, FlushedEnd
<1>7. e = dropped(h, 0)
  <2>1. e = dropped(flush(h, c), 0)
    BY DEF dropped
  <2> HIDE DEF h, header, e, ended, done
  <2>2. QED
    BY <1>5, <2>1
<1> HIDE DEF header, done, ended
<1>8. ASSUME h.err = "nil"
      PROVE  Closed(e, total, TRUE) /\ e.err = "nil"
  <2> HIDE DEF h, e
  <2>1. Sound(h) /\ e = dropped(h, 0)
    BY <1>5, <1>7, <1>8 DEF Closed
  <2>2. Sound(e) /\ e.err = "nil" /\ ~e.lastHeader /\ e.dec = h.dec
    BY <2>1, Dropped
  <2>3. QED
    BY <1>5, <1>8, <2>2 DEF Closed
<1>9. w' = (IF s.err # "nil" THEN s.w ELSE IF h.err # "nil" THEN h ELSE e)
  BY <1>1
<1>10. call' = [call EXCEPT !.ret = IF s.err # "nil" THEN s.err ELSE w'.err]
  BY <1>1
<1> HIDE DEF h, e, left
<1>11. /\ w'.err \in Errors
       /\ IF s.err = "nil" /\ w'.err = "nil" THEN Closed(w', total, TRUE)
          ELSE Steady(w', total)
  <2>1. CASE s.err # "nil"
    BY <1>4, <1>9, <2>1 DEF Steady, Sound
  <2>2. CASE s.err = "nil" /\ h.err # "nil"
    BY <1>5, <1>9, <2>2 DEF Steady, Closed, Sound
  <2>3. CASE s.err = "nil" /\ h.err = "nil"
    BY <1>8, <1>9, <2>3 DEF Closed, Sound
  <2>4. QED
    BY <2>1, <2>2, <2>3
<1>12. /\ call' \in Calls /\ call'.kind = "Close"
       /\ call'.ret = (IF s.err # "nil" THEN s.err ELSE w'.err)
  <2> DEFINE ret == IF s.err # "nil" THEN s.err ELSE w'.err
  <2>1. call' = [call EXCEPT !.ret = ret] /\ ret \in Errors \cup {"running", "panic"}
    BY <1>4, <1>10, <1>11
  <2> HIDE DEF ret
  <2>2. call' \in Calls /\ call'.kind = "Close" /\ call'.ret = ret
    BY <1>2, <2>1 DEF Calls
  <2>3. QED
    BY <2>2 DEF ret
<1>13. /\ call'.ret # "running"
       /\ IF closed' THEN w'.err = "nil" /\ Closed(w', total, TRUE) ELSE Steady(w', total)
  <2>1. call'.ret \in Errors
    BY <1>4, <1>11, <1>12
  <2>2. closed' <=> s.err = "nil" /\ w'.err = "nil"
    BY <1>12 DEF closed
  <2>3. QED
    BY <1>11, <2>1, <2>2, NotRunning
<1>14. /\ total' = total /\ total' \in Int /\ window' = total
       /\ windowEnd' = 0 /\ windowEnd' \in 0..BlockSize /\ sync' \in BOOLEAN
  <2>1. windowEnd' = 0 /\ total' = total /\ total \in Int /\ sync' = sync /\ sync \in BOOLEAN
    BY <1>1, <1>2, <1>4 DEF IInv
  <2>2. windowEnd' \in 0..BlockSize /\ total' \in Int /\ total - 0 = total
    BY <2>1
  <2>3. QED
    BY <2>1, <2>2 DEF window
<1>15. /\ level' \in {"store", "huff", "fast"} /\ Searchable'
       /\ tokens' = NoTokens /\ err' \in Errors
  BY <1>1, <1>2, <1>4 DEF IInv, Searchable
<1>16. Running' /\ FlushDelivers'
  BY <1>12, <1>13 DEF Running, FlushDelivers
<1>17. QED
  BY <1>12, <1>13, <1>14, <1>15, <1>16 DEF IInv
LEMMA ResetTo_IInv ==
  ASSUME IInv, NEW room, resetTo(room),
         NEW ret \in {"nil", "panic"}, call' = Call("Reset", 0, ret)
  PROVE  IInv'
<1>1. Sound(w)
  BY DEF IInv, Steady, Closed
<1>2. Steady(w', 0)
  BY <1>1, FreshSteady DEF resetTo
<1>3. ret \in Errors \cup {"running", "panic"} /\ ret # "running"
  BY DEF Errors
<1>4. call' \in Calls /\ call'.kind = "Reset" /\ call'.ret = ret
  BY <1>3, CallFields
<1>5. ~closed' /\ Running' /\ FlushDelivers'
  BY <1>3, <1>4 DEF closed, Running, FlushDelivers
<1>6. windowEnd' = 0 /\ total' = 0 /\ sync' = FALSE /\ err' = "nil" /\ level' = level
  BY DEF resetTo
<1>7. tokens' = NoTokens
  BY DEF resetTo, IInv
<1>8. windowEnd' \in 0..BlockSize /\ total' \in Int /\ window' = 0
  BY <1>6 DEF window
<1>9. err' \in Errors /\ sync' \in BOOLEAN
  BY <1>6 DEF Errors
<1>10. level' \in {"store", "huff", "fast"} /\ Searchable'
  BY <1>6 DEF IInv, Searchable
<1>11. QED
  BY <1>2, <1>4, <1>5, <1>7, <1>8, <1>9, <1>10 DEF IInv

LEMMA FilledWindow ==
  ASSUME NEW n, NEW ret \in fillWindow(n)
  PROVE  ret \in {"nil", "panic"}
BY DEF fillWindow

\* Every call and every pass of a loop keeps the invariant, for every Searchable
\* window, every outcome of an encoder and every failing destination.
THEOREM Inductive == IInv /\ [Next]_vars => IInv'
<1> SUFFICES ASSUME IInv, [Next]_vars PROVE IInv'
  OBVIOUS
<1>1. ASSUME NEW n \in Writes, Write(n) PROVE IInv'
  BY <1>1, Write_IInv
<1>2. CASE writeLoop
  BY <1>2, WriteLoop_IInv
<1>3. CASE Flush
  BY <1>3, Flush_IInv
<1>4. CASE FlushStep
  BY <1>4, FlushStep_IInv
<1>5. CASE Close
  BY <1>5, Close_IInv
<1>6. CASE CloseStep
  BY <1>6, CloseStep_IInv
<1>7. ASSUME NEW room \in Rooms, Reset(room) PROVE IInv'
  <2>1. PICK ret \in fillWindow(dict) : call' = Call("Reset", 0, ret)
    BY <1>7 DEF Reset
  <2>2. ret \in {"nil", "panic"} /\ resetTo(room)
    BY <1>7, FilledWindow DEF Reset
  <2>3. QED
    BY <2>1, <2>2, ResetTo_IInv
<1>8. ASSUME NEW room \in Rooms, NEW n \in DictSizes, ResetDict(room, n) PROVE IInv'
  <2>1. PICK ret \in fillWindow(n) : call' = Call("Reset", 0, ret)
    BY <1>8 DEF ResetDict
  <2>2. ret \in {"nil", "panic"} /\ resetTo(room)
    BY <1>8, FilledWindow DEF ResetDict
  <2>3. QED
    BY <2>1, <2>2, ResetTo_IInv
<1>9. CASE UNCHANGED vars
  BY <1>9 DEF vars, IInv, Running, FlushDelivers, closed, window, Searchable
<1>10. QED
  BY <1>1, <1>2, <1>3, <1>4, <1>5, <1>6, <1>7, <1>8, <1>9 DEF Next, Done

-----------------------------------------------------------------------------
(* Theorems.                                                               *)

\* What the invariant says of the properties.
LEMMA Implied ==
  ASSUME IInv
  PROVE  /\ DecoderFollows /\ OwedEndOfBlock /\ HeaderCacheExact
         /\ NothingLost /\ FlushDelivers /\ CloseDelivers
<1>1. Sound(w)
  BY DEF IInv, Steady, Closed
<1>2. DecoderFollows /\ HeaderCacheExact
  BY <1>1 DEF Sound, Following, DecoderFollows, HeaderCacheExact
<1>3. OwedEndOfBlock
  <2>1. CASE closed
    <3>1. Closed(w, total, TRUE)
      BY <2>1 DEF IInv
    <3>2. QED
      BY <3>1 DEF Closed, After, OwedEndOfBlock
  <2>2. CASE ~closed
    <3>1. Steady(w, window)
      BY <2>2 DEF IInv
    <3>2. QED
      BY <3>1 DEF Steady, Open, OwedEndOfBlock
  <2>3. QED
    BY <2>1, <2>2
<1>4. NothingLost
  <2>1. tokens.n = 0 /\ windowEnd \in 0..BlockSize /\ 0 \in 0..BlockSize
    BY DEF IInv, NoTokens, Tokens
  <2>2. ASSUME w.err = "nil" PROVE w.dec.got + windowEnd = total
    <3>1. CASE closed
      BY <2>2, <3>1 DEF IInv, Closed
    <3>2. CASE ~closed
      <4>1. w.dec.got = window
        BY <2>2, <3>2 DEF IInv, Steady, Open
      <4>2. QED
        BY <4>1 DEF window, IInv
    <3>3. QED
      BY <3>1, <3>2
  <2>3. QED
    BY <2>1, <2>2 DEF NothingLost
<1>5. FlushDelivers
  BY DEF IInv
<1>6. CloseDelivers
  BY DEF IInv, Closed, After, CloseDelivers, closed
<1>7. QED
  BY <1>2, <1>3, <1>4, <1>5, <1>6

\* The invariant holds of every behaviour of a Writer whose window is Searchable:
\* of any size at levels 0 and -2, of MinEncode (13 in the code) bytes or more at
\* levels 1-6.  A smaller window there is accepted and is where a decoder is misled
\* (level1.go line 58), so neither this theorem nor the next six hold of it.
THEOREM Invariance == Spec /\ Searchable => []IInv
<1>1. Init /\ Searchable => IInv
  BY Init_IInv
<1>2. IInv /\ [Next]_vars => IInv'
  BY Inductive
<1>3. QED
  BY <1>1, <1>2, PTL DEF Spec

\* With a Searchable window a decoder is never misled, wherever write, syncFlush
\* and close cut the blocks and whatever writeBlockDynamic and writeBlockHuff choose.
THEOREM DecoderAlwaysFollows == Spec /\ Searchable => []DecoderFollows
<1>1. IInv => DecoderFollows
  BY Implied
<1>2. QED
  BY <1>1, Invariance, PTL

\* lastHeader is what payEOB needs it to be, between any two calls on a
\* Searchable window.
THEOREM EndOfBlockAlwaysOwed == Spec /\ Searchable => []OwedEndOfBlock
<1>1. IInv => OwedEndOfBlock
  BY Implied
<1>2. QED
  BY <1>1, Invariance, PTL

\* A header that replayHeader may write describes the tables in use, across
\* Reset and failures of the destination, for a Searchable window.
THEOREM HeaderCacheAlwaysExact == Spec /\ Searchable => []HeaderCacheExact
<1>1. IInv => HeaderCacheExact
  BY Implied
<1>2. QED
  BY <1>1, Invariance, PTL

\* Every byte Write accepts is written or waits in the window, if that is
\* Searchable.
THEOREM NothingEverLost == Spec /\ Searchable => []NothingLost
<1>1. IInv => NothingLost
  BY Implied
<1>2. QED
  BY <1>1, Invariance, PTL

\* With a Searchable window, after a syncFlush that returns nil the reader has
\* everything, and after a close that returns nil the stream is complete.
THEOREM SuccessAlwaysDelivers == Spec /\ Searchable => []SuccessDelivers
<1>1. IInv => SuccessDelivers
  BY Implied DEF SuccessDelivers
<1>2. QED
  BY <1>1, Invariance, PTL

\* No pass of write's loop leaves its input as it was: the step empties a
\* full Searchable window at every level, so the loop cannot spin.
THEOREM LoopAlwaysTakesInput == Spec /\ Searchable => LoopTakesInput
<1>1. ASSUME IInv, [Next]_vars
      PROVE  call'.passes > call.passes => call'.left < call.left
  <2>1. call.left \in Nat /\ call.passes \in Nat
    BY <1>1 DEF IInv, Calls
  <2>2. CASE writeLoop
    <3>1. PICK s, n : Pass(s, n)
      BY <1>1, <2>2, WriteLoopPass
    <3>2. call \in Calls /\ n \in Nat /\ n > 0 /\ n <= call.left
      BY <1>1, <3>1 DEF Pass, IInv
    <3>3. CASE s.err # "nil" \/ call.left = n
      <4>1. call'.passes = 0
        BY <3>1, <3>3 DEF Pass, Call
      <4>2. QED
        BY <2>1, <4>1
    <3>4. CASE s.err = "nil" /\ call.left # n
      <4>1. call' = [call EXCEPT !.left = call.left - n, !.passes = call.passes + 1]
        BY <3>1, <3>4 DEF Pass
      <4>2. call'.left = call.left - n
        BY <3>2, <4>1 DEF Calls
      <4>3. QED
        BY <2>1, <3>2, <4>2
    <3>5. QED
      BY <3>3, <3>4
  <2>3. CASE FlushStep \/ CloseStep
    <3>1. \E ret : call' = [call EXCEPT !.ret = ret]
      BY <2>3 DEF FlushStep, CloseStep
    <3>2. call'.passes = call.passes
      BY <1>1, <3>1 DEF IInv, Calls
    <3>3. QED
      BY <2>1, <3>2
  <2>4. CASE \/ \E n \in Writes : Write(n)
             \/ Flush \/ Close
             \/ \E room \in Rooms : Reset(room)
             \/ \E room \in Rooms, n \in DictSizes : ResetDict(room, n)
    <3>1. \E kind, left, ret : call' = Call(kind, left, ret)
      BY <2>4 DEF Write, Flush, Close, Reset, ResetDict
    <3>2. call'.passes = 0
      BY <3>1 DEF Call
    <3>3. QED
      BY <2>1, <3>2
  <2>5. CASE UNCHANGED vars
    BY <2>1, <2>5 DEF vars
  <2>6. QED
    BY <1>1, <2>2, <2>3, <2>4, <2>5 DEF Next, Done
<1>2. IInv /\ [Next]_vars => [call'.passes > call.passes => call'.left < call.left]_vars
  BY <1>1
<1>3. QED
  BY <1>2, Invariance, PTL DEF Spec, LoopTakesInput
=============================================================================
