------------------------- MODULE DefaultChunkerProofs -------------------------
(***************************************************************************)
(* Proofs about SlidingWindow, ParagraphSplit and DefaultChunker, for      *)
(* every window and chunk size, overlap shorter than it, header, text and  *)
(* place of its separators.                                                *)
(***************************************************************************)
EXTENDS DefaultChunker, TLAPS

-----------------------------------------------------------------------------
(* splitSlidingWindow: the sizes its loop computes with *)

\* A window is positive and starts the next one inside or right after itself.
LEMMA Sizes ==
    ASSUME WindowTypeOK
    PROVE  /\ len \in Nat \ {0} /\ head \in Nat /\ overlap \in Nat /\ overlap < Size
           /\ ContWindow \in Nat \ {0} /\ ContStep \in Nat \ {0}
           /\ Window \in Nat \ {0} /\ Step \in Nat \ {0} /\ Step <= Window
           /\ End \in Nat /\ pos < End /\ End <= len /\ End <= pos + Window
           /\ End < len => End = pos + Window
<1>1. len \in Nat \ {0} /\ head \in Nat /\ overlap \in Nat /\ overlap < Size
  BY SizeAssumption, OverlapAssumption, LengthAssumption DEF WindowTypeOK
<1>2. ContWindow \in Nat \ {0}
  BY <1>1, SizeAssumption DEF ContWindow
<1>3. ContStep \in Nat \ {0}
  BY <1>1, <1>2 DEF ContStep
<1>4. Window \in Nat \ {0}
  BY <1>2, SizeAssumption DEF Window
<1>5. Step \in Nat \ {0} /\ Step <= Window
  BY <1>1, <1>4 DEF Step
<1>6. /\ End \in Nat /\ pos < End /\ End <= len /\ End <= pos + Window
      /\ End < len => End = pos + Window
  BY <1>1, <1>4 DEF End, WindowTypeOK
<1> QED BY <1>1, <1>2, <1>3, <1>4, <1>5, <1>6

\* What the next turn of the loop sees after a window that was not the last.
LEMMA TurnStep ==
    ASSUME WindowTypeOK, chunks = <<>> => pos = 0
    PROVE  /\ chunks = <<>> => Window = Size /\ Step = Size - overlap
           /\ chunks # <<>> => Window = ContWindow /\ Step = ContStep
           /\ \/ Window - Step = overlap
              \/ Step = 1 /\ Window <= overlap
<1> USE Sizes, SizeAssumption
<1>1. chunks = <<>> => Window = Size /\ Step = Size - overlap
  BY DEF Window, Step
<1>2. chunks # <<>> => Window = ContWindow /\ Step = ContStep
  BY DEF Window, Step, ContStep
<1>3. \/ Window - Step = overlap
      \/ Step = 1 /\ Window <= overlap
  BY DEF Step
<1> QED BY <1>1, <1>2, <1>3

-----------------------------------------------------------------------------
(* Types *)

\* pos stays inside the text and the result is a sequence of chunks.
THEOREM WindowTypeCorrect == Spec => []WindowTypeOK
<1>1. Init => WindowTypeOK
  <2> SUFFICES ASSUME Init PROVE WindowTypeOK
    OBVIOUS
  <2>1. pos \in 0 .. len - 1
    BY LengthAssumption DEF Init, TextInit
  <2>2. chunks \in Seq(ChunkType)
    BY DEF Init
  <2> QED BY <2>1, <2>2 DEF Init, TextInit, WindowTypeOK
<1>2. WindowTypeOK /\ [Next]_vars => WindowTypeOK'
  <2> SUFFICES ASSUME WindowTypeOK, [Next]_vars PROVE WindowTypeOK'
    OBVIOUS
  <2>1. CASE Whole
    BY <2>1, Sizes DEF Whole, WindowTypeOK, ChunkType, args
  <2>2. CASE Cut
    <3>1. [prefix |-> Prefix, from |-> pos, to |-> End] \in ChunkType
      <4>1. Prefix \in Nat /\ End \in Nat
        BY Sizes DEF Prefix
      <4>2. pos \in Nat
        BY Sizes DEF WindowTypeOK
      <4> QED BY <4>1, <4>2 DEF ChunkType
    <3>2. End < len => pos + Step \in 0 .. len - 1
      BY Sizes DEF WindowTypeOK
    <3> QED BY <2>2, <3>1, <3>2, Sizes DEF Cut, WindowTypeOK, args
  <2>3. CASE UNCHANGED vars
    BY <2>3 DEF vars, WindowTypeOK
  <2> QED BY <2>1, <2>2, <2>3 DEF Next
<1> QED BY <1>1, <1>2, PTL DEF Spec

-----------------------------------------------------------------------------
(* The invariant *)

\* What Cut leaves of the result: the chunks before it, and one more.
LEMMA CutAppends ==
    ASSUME WindowTypeOK, Cut
    PROVE  /\ Len(chunks') = Len(chunks) + 1
           /\ chunks' # <<>>
           /\ DOMAIN chunks' = 1 .. Len(chunks) + 1
           /\ \A i \in 1 .. Len(chunks) : chunks'[i] = chunks[i]
           /\ chunks'[Len(chunks) + 1] =
                [prefix |-> Prefix, from |-> pos, to |-> End]
           /\ DOMAIN chunks = 1 .. Len(chunks) /\ Len(chunks) \in Nat
           /\ \A i \in DOMAIN chunks : chunks[i] \in ChunkType
           /\ chunks = <<>> <=> Len(chunks) = 0
BY DEF Cut, WindowTypeOK

\* A turn of the loop that cuts a window preserves the invariant.
LEMMA CutStep ==
    ASSUME WindowTypeOK, WindowInv, Cut
    PROVE  WindowInv'
<1> DEFINE n == Len(chunks)
           c == [prefix |-> Prefix, from |-> pos, to |-> End]
<1>0. /\ Size \in Nat /\ len \in Nat /\ head \in Nat /\ overlap \in Nat /\ overlap < Size
      /\ ContWindow \in Nat /\ ContStep \in Nat /\ Window \in Nat
      /\ Step \in Nat /\ Step <= Window
      /\ End \in Nat /\ pos < End /\ End <= len /\ End <= pos + Window
      /\ End < len => End = pos + Window
  BY Sizes, SizeAssumption
<1>1. len' = len /\ head' = head /\ overlap' = overlap
  BY DEF Cut, args
<1>2. ContStep' = ContStep /\ ContWindow' = ContWindow
  BY <1>1 DEF ContStep, ContWindow
<1>3. \/ End >= len /\ done' /\ pos' = pos
      \/ End < len /\ ~done' /\ pos' = pos + Step
  <2>1. CASE End >= len
    BY <2>1 DEF Cut
  <2>2. CASE End < len
    BY <2>2, <1>0 DEF Cut
  <2> QED BY <2>1, <2>2, <1>0
<1>4. ~done /\ pos \in Nat /\ n \in Nat
  BY Sizes, CutAppends DEF Cut, WindowTypeOK
<1>5. chunks = <<>> => pos = 0
  BY DEF WindowInv, BetweenTurns
<1>6. \A b \in 0 .. len - 1 :
        b < End => \E i \in DOMAIN chunks' : chunks'[i].from <= b /\ b < chunks'[i].to
  <2>1. SUFFICES ASSUME NEW b \in 0 .. len - 1, b < End
                 PROVE  \E i \in DOMAIN chunks' : chunks'[i].from <= b /\ b < chunks'[i].to
    OBVIOUS
  <2>2. CASE b < pos
    <3>1. PICK i \in DOMAIN chunks : chunks[i].from <= b /\ b < chunks[i].to
      BY <2>1, <2>2, <1>4 DEF WindowInv, BetweenTurns
    <3> QED BY <3>1, CutAppends
  <2>3. CASE pos <= b
    BY <2>1, <2>3, CutAppends, <1>0
  <2> QED BY <2>1, <2>2, <2>3, <1>4
<1>7. BetweenTurns'
  <2>1. \A b \in 0 .. len' - 1 :
          b < pos' => \E i \in DOMAIN chunks' : chunks'[i].from <= b /\ b < chunks'[i].to
    <3>1. pos' \in Nat /\ pos' <= End
      BY <1>3, <1>4, <1>0
    <3> QED BY <1>1, <1>6, <3>1, <1>0
  <2>2. ASSUME ~done' PROVE pos' = Size - overlap' + (Len(chunks') - 1) * ContStep'
    <3>1. pos' = pos + Step
      BY <2>2, <1>3
    <3>2. CASE chunks = <<>>
      <4>1. pos' = Size - overlap /\ Len(chunks') - 1 = 0
        BY <3>1, <3>2, <1>5, CutAppends, TurnStep, <1>0
      <4>2. ASSUME NEW s \in Nat PROVE 0 * s = 0
        OBVIOUS
      <4>3. (Len(chunks') - 1) * ContStep' = 0
        BY <4>1, <4>2, <1>2, <1>0
      <4> QED BY <4>1, <4>3, <1>1, <1>0
    <3>3. CASE chunks # <<>>
      <4>1. pos = Size - overlap + (n - 1) * ContStep /\ Step = ContStep
        BY <3>3, <1>4, <1>5, TurnStep DEF WindowInv, BetweenTurns
      <4>2. Len(chunks') - 1 = n
        BY <1>4, CutAppends
      <4>3. ASSUME NEW m \in Nat, NEW s \in Nat
            PROVE  (m - 1) * s + s = m * s /\ (m - 1) * s \in Int
        OBVIOUS
      <4>4. (n - 1) * ContStep + ContStep = n * ContStep /\ (n - 1) * ContStep \in Int
        BY <4>3, <1>4, <1>0
      <4>5. pos' = Size - overlap + n * ContStep
        BY <3>1, <4>1, <4>4, <1>0
      <4> QED BY <4>2, <4>5, <1>1, <1>2
    <3> QED BY <3>2, <3>3
  <2>3. ASSUME ~done'
        PROVE  \/ Last'.to - pos' = overlap'
               \/ pos' = Last'.from + 1 /\ Last'.to - Last'.from <= overlap'
    <3>1. Last' = c
      BY CutAppends DEF Last
    <3>2. End = pos + Window /\ pos' = pos + Step
      BY <2>3, <1>3, <1>0
    <3> QED BY <3>1, <3>2, <1>1, <1>4, <1>5, TurnStep, <1>0
  <2> QED BY <2>1, <2>2, <2>3, CutAppends DEF BetweenTurns
<1>8. NoByteLost'
  BY <1>1, <1>3, <1>6, <1>0 DEF NoByteLost
<1>9. FitsWindow'
  <2>1. SUFFICES ASSUME NEW i \in 1 .. n + 1
        PROVE  chunks'[i].prefix + chunks'[i].to - chunks'[i].from
                 <= IF head + 2 < Size THEN Size ELSE Size + head + 2
    BY <1>1, CutAppends DEF FitsWindow, ChunkLength
  <2>2. CASE i <= n
    BY <2>1, <2>2, <1>4, CutAppends DEF WindowInv, FitsWindow, ChunkLength
  <2>3. CASE i = n + 1
    <3>1. /\ chunks'[i].prefix = Prefix /\ chunks'[i].from = pos /\ chunks'[i].to = End
          /\ End - pos <= Window
      BY <2>3, <1>4, CutAppends, <1>0
    <3>2. CASE chunks = <<>>
      BY <3>1, <3>2, <1>4, <1>0 DEF Prefix, Window
    <3>3. CASE chunks # <<>>
      BY <3>1, <3>3, <1>4, <1>0 DEF Prefix, Window, ContWindow
    <3> QED BY <3>2, <3>3
  <2> QED BY <2>1, <2>2, <2>3, <1>4
<1>10. KeepsOverlap'
  <2>1. SUFFICES ASSUME NEW i \in 1 .. n
        PROVE  \/ chunks'[i].to - chunks'[i + 1].from = overlap
               \/ /\ chunks'[i + 1].from = chunks'[i].from + 1
                  /\ chunks'[i].to - chunks'[i].from <= overlap
    BY <1>1, <1>4, CutAppends DEF KeepsOverlap
  <2>2. CASE i < n
    BY <2>1, <2>2, <1>4, CutAppends DEF WindowInv, KeepsOverlap
  <2>3. CASE i = n
    <3>1. chunks'[i] = Last /\ chunks'[i + 1].from = pos /\ chunks # <<>>
      BY <2>1, <2>3, CutAppends DEF Last
    <3> QED BY <3>1, <1>4 DEF WindowInv, BetweenTurns
  <2> QED BY <2>1, <2>2, <2>3, <1>4
<1>11. FewWindows'
  <2>1. CASE chunks = <<>>
    <3>1. Len(chunks') = 1
      BY <2>1, CutAppends
    <3> QED BY <3>1 DEF FewWindows
  <2>2. CASE chunks # <<>>
    <3>1. pos = Size - overlap + (n - 1) * ContStep /\ pos < len
      BY <2>2, <1>4, <1>0 DEF WindowInv, BetweenTurns, WindowTypeOK
    <3>2. Len(chunks') - 2 = n - 1
      BY <1>4, CutAppends
    <3> QED BY <3>1, <3>2, <1>1, <1>2 DEF FewWindows
  <2> QED BY <2>1, <2>2
<1> QED BY <1>7, <1>8, <1>9, <1>10, <1>11 DEF WindowInv

\* WindowInv holds in every state.
THEOREM WindowInvariant == Spec => []WindowInv
<1>1. Init => WindowInv
  <2> SUFFICES ASSUME Init PROVE WindowInv
    OBVIOUS
  <2> QED BY DEF Init, TextInit, WindowInv, BetweenTurns, NoByteLost, FitsWindow, KeepsOverlap, FewWindows
<1>2. WindowTypeOK /\ WindowInv /\ [Next]_vars => WindowInv'
  <2> SUFFICES ASSUME WindowTypeOK, WindowInv, [Next]_vars PROVE WindowInv'
    OBVIOUS
  <2>1. CASE Whole
    <3>1. /\ len' = len /\ head' = head /\ overlap' = overlap /\ done' /\ len <= Size
          /\ chunks' = <<[prefix |-> 0, from |-> 0, to |-> len]>>
          /\ pos' = pos
      BY <2>1 DEF Whole, args
    <3>2. /\ DOMAIN chunks' = {1} /\ Len(chunks') = 1 /\ chunks' # <<>>
          /\ chunks'[1] = [prefix |-> 0, from |-> 0, to |-> len]
      BY <3>1
    <3>3. \A b \in 0 .. len - 1 : chunks'[1].from <= b /\ b < chunks'[1].to
      BY <3>2, Sizes
    <3>4. BetweenTurns' /\ NoByteLost'
      BY <3>1, <3>2, <3>3 DEF BetweenTurns, NoByteLost
    <3>5. FitsWindow'
      BY <3>1, <3>2, Sizes, SizeAssumption DEF FitsWindow, ChunkLength
    <3>6. KeepsOverlap' /\ FewWindows'
      BY <3>1, <3>2 DEF KeepsOverlap, FewWindows
    <3> QED BY <3>4, <3>5, <3>6 DEF WindowInv
  <2>2. CASE Cut
    BY <2>2, CutStep
  <2>3. CASE UNCHANGED vars
    BY <2>3 DEF vars, WindowInv, BetweenTurns, NoByteLost, FitsWindow, ChunkLength,
                KeepsOverlap, FewWindows, Last, ContStep, ContWindow
  <2> QED BY <2>1, <2>2, <2>3 DEF Next
<1> QED BY <1>1, <1>2, WindowTypeCorrect, PTL DEF Spec

\* docs/whitepaper.md:186: what lies at the border of two windows is not lost.
THEOREM NothingLostAtBorders == Spec => []NoByteLost
BY WindowInvariant, PTL DEF WindowInv

\* No chunk is longer than the window, the header put before it included.
THEOREM ChunksFit == Spec => []FitsWindow
BY WindowInvariant, PTL DEF WindowInv

\* Consecutive windows share the overlap whenever a window is longer than it.
THEOREM OverlapKept == Spec => []KeepsOverlap
BY WindowInvariant, PTL DEF WindowInv

\* The loop makes at most as many windows as their distance puts into the text.
THEOREM WindowsAreFew == Spec => []FewWindows
BY WindowInvariant, PTL DEF WindowInv

-----------------------------------------------------------------------------
(* splitParagraph: one turn of the loop *)

\* Where a paragraph can end.
LEMMA EndFacts ==
    ASSUME ParaTypeOK, NEW e \in breaks \cup {len}, EndsAt(e)
    PROVE  e \in Nat /\ e > 0 /\ e <= len /\ next <= e /\ next \in Nat
<1>1. len \in Nat /\ len > 0 /\ breaks \subseteq Nat \ {0} /\ next \in Nat
  BY LengthAssumption, BreaksAssumption DEF ParaTypeOK
<1> QED BY <1>1 DEF EndsAt, ParaTypeOK

\* What the chunk in hand is at any moment of the loop.
LEMMA PieceFacts ==
    ASSUME ParaTypeOK, ParaInv, ~returned
    PROVE  /\ current.prefix \in Nat /\ current.from \in Nat /\ current.to \in Nat
           /\ parts \in Seq(ChunkType) /\ Pieces \in Seq(ChunkType)
           /\ current = Nothing => Pieces = <<>> /\ parts = <<>> /\ next = 0
           /\ current # Nothing =>
                /\ Pieces = Append(parts, current)
                /\ Len(Pieces) = Len(parts) + 1
                /\ Pieces[Len(parts) + 1] = current
                /\ \A i \in 1 .. Len(parts) : Pieces[i] = parts[i]
                /\ next > 0
                /\ current.to = next - 2 /\ current.to \in breaks \cup {len}
                /\ current.from <= current.to
                /\ ChunkLength(current) > 0
<1>1. current \in ChunkType /\ parts \in Seq(ChunkType) /\ next \in Nat
  BY LengthAssumption DEF ParaTypeOK
<1>2. current.prefix \in Nat /\ current.from \in Nat /\ current.to \in Nat
  BY <1>1 DEF ChunkType
<1>3. CASE current = Nothing
  BY <1>1, <1>2, <1>3 DEF Pieces, ParaInv, Gathered
<1>4. CASE current # Nothing
  <2>1. /\ Pieces = Append(parts, current)
        /\ Len(Pieces) = Len(parts) + 1
        /\ Pieces[Len(parts) + 1] = current
        /\ \A i \in 1 .. Len(parts) : Pieces[i] = parts[i]
        /\ Pieces \in Seq(ChunkType)
        /\ Len(parts) + 1 \in DOMAIN Pieces
    BY <1>1, <1>4 DEF Pieces
  <2>2. /\ next > 0
        /\ current.to = next - 2 /\ current.to \in breaks \cup {len}
        /\ current.from <= current.to
    BY <1>1, <1>4 DEF ParaInv, Gathered
  <2>3. ChunkLength(current) > 0
    BY <2>1 DEF ParaInv, NoEmptyPiece
  <2> QED BY <1>1, <1>2, <1>4, <2>1, <2>2, <2>3
<1> QED BY <1>3, <1>4

-----------------------------------------------------------------------------
(* Types *)

\* The chunk in hand and the result are chunks; next is at most past the text's end.
THEOREM ParaTypeCorrect == ParaSpec => []ParaTypeOK
<1>1. ParaInit => ParaTypeOK
  <2> SUFFICES ASSUME ParaInit PROVE ParaTypeOK
    OBVIOUS
  <2>1. len \in Lengths /\ len \in Nat /\ head \in Headers /\ next \in 0 .. len + 2
    BY LengthAssumption DEF ParaInit, TextInit
  <2>2. current \in ChunkType /\ parts = <<>> /\ returned = FALSE
    BY DEF ParaInit, Nothing, ChunkType
  <2>3. breaks \subseteq {b \in Breaks : b + 2 <= len}
    BY DEF ParaInit
  <2>4. parts \in Seq(ChunkType)
    BY <2>2
  <2> QED BY <2>1, <2>2, <2>3, <2>4 DEF ParaTypeOK
<1>2. ParaTypeOK /\ [ParaNext]_paraVars => ParaTypeOK'
  <2> SUFFICES ASSUME ParaTypeOK, [ParaNext]_paraVars PROVE ParaTypeOK'
    OBVIOUS
  <2>0. /\ len \in Nat /\ head \in Nat /\ breaks \subseteq Nat /\ next \in Nat
        /\ current.prefix \in Nat /\ current.from \in Nat /\ current.to \in Nat
    BY LengthAssumption, BreaksAssumption DEF ParaTypeOK, ChunkType
  <2>1. CASE ParaWhole
    <3>1. [prefix |-> 0, from |-> 0, to |-> len] \in ChunkType
      BY <2>0 DEF ChunkType
    <3> QED BY <2>1, <3>1 DEF ParaWhole, text, ParaTypeOK
  <2>2. CASE Paragraph
    <3>1. PICK e \in breaks \cup {len} : Merge(e) \/ Flush(e)
      BY <2>2 DEF Paragraph
    <3>2. e \in Nat /\ e + 2 \in 0 .. len + 2
      BY <3>1, EndFacts, <2>0 DEF Merge, Flush
    <3>3. CASE Merge(e)
      <4>1. Candidate(e) \in ChunkType
        BY <3>2, <2>0 DEF Candidate, ParaTypeOK, ChunkType
      <4> QED BY <3>2, <3>3, <4>1 DEF Merge, text, ParaTypeOK
    <3>4. CASE Flush(e)
      <4>1. [prefix |-> head + 2, from |-> next, to |-> e] \in ChunkType
        BY <3>2, <2>0 DEF ChunkType
      <4>2. Append(parts, current) \in Seq(ChunkType)
        BY DEF ParaTypeOK
      <4> QED BY <3>2, <3>4, <4>1, <4>2 DEF Flush, text, ParaTypeOK
    <3> QED BY <3>1, <3>3, <3>4
  <2>3. CASE ParaReturn
    BY <2>3, <2>0 DEF ParaReturn, text, ParaTypeOK
  <2>4. CASE UNCHANGED paraVars
    BY <2>4 DEF paraVars, ParaTypeOK
  <2> QED BY <2>1, <2>2, <2>3, <2>4 DEF ParaNext
<1> QED BY <1>1, <1>2, PTL DEF ParaSpec

-----------------------------------------------------------------------------
(* The invariant *)

\* A paragraph joins the chunk in hand.
LEMMA MergeStep ==
    ASSUME ParaTypeOK, ParaInv, ~returned,
           NEW e \in breaks \cup {len}, Merge(e)
    PROVE  ParaInv'
<1> DEFINE n == Len(parts)
<1>0. /\ len \in Nat /\ head \in Nat /\ Size \in Nat /\ next \in Nat
      /\ e \in Nat /\ e > 0 /\ e <= len /\ next <= e
      /\ breaks \subseteq Nat
  BY EndFacts, LengthAssumption, BreaksAssumption, SizeAssumption
     DEF Merge, ParaTypeOK
<1>1. /\ len' = len /\ head' = head /\ breaks' = breaks
      /\ parts' = parts /\ ~returned' /\ next' = e + 2
      /\ current' = [prefix |-> current.prefix, from |-> current.from, to |-> e]
  BY DEF Merge, text, Candidate, ParaTypeOK, ChunkType
<1>2. current' # Nothing /\ Pieces' = Append(parts, current')
  BY <1>0, <1>1 DEF Nothing, Pieces
<1>3. /\ Len(Pieces') = n + 1 /\ Pieces'[n + 1] = current'
      /\ \A i \in 1 .. n : Pieces'[i] = parts[i]
      /\ DOMAIN Pieces' = 1 .. n + 1 /\ n \in Nat
  BY <1>2 DEF ParaTypeOK
<1>4. CASE current = Nothing
  <2>1. /\ n = 0 /\ next = 0
        /\ current' = [prefix |-> 0, from |-> 0, to |-> e]
    BY <1>1, <1>4, PieceFacts DEF Nothing
  <2>2. Gathered'
    BY <1>0, <1>1, <1>2, <1>3, <2>1 DEF Gathered
  <2>3. LongPartIsAlone' /\ NoEmptyPiece' /\ MergedWhileFits'
    <3>1. \A b \in breaks : ~(0 <= b /\ b < e)
      BY <1>0, <2>1 DEF Merge, EndsAt
    <3> QED BY <1>0, <1>1, <1>3, <2>1, <3>1
            DEF LongPartIsAlone, NoEmptyPiece, MergedWhileFits, ChunkLength
  <2> QED BY <1>1, <2>2, <2>3 DEF ParaInv, ParagraphsOnce
<1>5. CASE current # Nothing
  <2>1. /\ Pieces = Append(parts, current) /\ Len(Pieces) = n + 1
        /\ Pieces[n + 1] = current
        /\ \A i \in 1 .. n : Pieces[i] = parts[i]
        /\ next > 0 /\ current.to = next - 2 /\ current.from <= current.to
        /\ current.prefix \in Nat /\ current.from \in Nat /\ current.to \in Nat
        /\ ChunkLength(current) > 0
        /\ DOMAIN Pieces = 1 .. n + 1
    BY <1>5, PieceFacts
  <2>2. /\ current'.from = current.from /\ current'.to = e
        /\ current'.prefix = current.prefix
        /\ ChunkLength(current') <= Size
    <3>1. ~(ChunkLength(Candidate(e)) > Size)
      BY <1>5 DEF Merge, Overflows
    <3>2. Candidate(e) = current'
      BY DEF Merge
    <3>3. ChunkLength(current') = current.prefix + e - current.from
      BY <1>1 DEF ChunkLength
    <3>4. current.prefix + e - current.from \in Int
      BY <1>0, <2>1
    <3>5. ChunkLength(current') <= Size
      BY <1>0, <3>1, <3>2, <3>3, <3>4
    <3> QED BY <1>1, <3>5
  <2>3. \A i \in 1 .. n :
          /\ Pieces'[i] = Pieces[i]
          /\ Pieces'[i + 1].from = Pieces[i + 1].from
    BY <1>3, <2>1, <2>2
  <2>4. Gathered'
    <3>1. Pieces'[1].from = 0
      BY <1>3, <2>1, <2>2, <2>3 DEF ParaInv, Gathered
    <3>2. ASSUME NEW i \in 1 .. n
          PROVE  Pieces'[i].to \in breaks /\ Pieces'[i + 1].from = Pieces'[i].to + 2
      <4>1. i \in 1 .. Len(Pieces) - 1
        BY <1>3, <2>1
      <4>2. Pieces[i].to \in breaks /\ Pieces[i + 1].from = Pieces[i].to + 2
        BY <4>1 DEF ParaInv, Gathered
      <4>3. Pieces'[i] = Pieces[i] /\ Pieces'[i + 1].from = Pieces[i + 1].from
        BY <2>3
      <4> QED BY <4>2, <4>3
    <3> QED BY <1>0, <1>1, <1>2, <1>3, <2>1, <2>2, <3>1, <3>2 DEF Gathered
  <2>5. LongPartIsAlone' /\ NoEmptyPiece'
    <3>1. ChunkLength(Pieces'[n + 1]) <= Size /\ ChunkLength(Pieces'[n + 1]) > 0
      <4>1. ChunkLength(current') = current.prefix + e - current.from
        BY <2>2 DEF ChunkLength
      <4>2. current.prefix + e - current.from > 0
        <5>1. current.prefix + current.to - current.from > 0 /\ current.to < e
          BY <1>0, <2>1 DEF ChunkLength
        <5> QED BY <5>1, <1>0, <2>1
      <4> QED BY <1>3, <2>2, <4>1, <4>2
    <3>2. ASSUME NEW i \in 1 .. n + 1
          PROVE  /\ ChunkLength(Pieces'[i]) > 0
                 /\ ChunkLength(Pieces'[i]) > Size =>
                      \A b \in breaks : ~(Pieces'[i].from <= b /\ b < Pieces'[i].to)
      <4>1. CASE i = n + 1
        <5>1. ChunkLength(Pieces'[i]) \in Int
          BY <4>1, <1>0, <1>3, <2>1, <2>2 DEF ChunkLength
        <5> QED BY <4>1, <3>1, <5>1, <1>0
      <4>2. CASE i \in 1 .. n
        <5>1. Pieces'[i] = Pieces[i] /\ i \in DOMAIN Pieces
          BY <4>2, <1>3, <2>1, <2>3
        <5> QED BY <5>1 DEF LongPartIsAlone, NoEmptyPiece, ParaInv
      <4> QED BY <4>1, <4>2, <1>3
    <3> QED BY <3>2, <1>1, <1>3 DEF LongPartIsAlone, NoEmptyPiece, ChunkLength
  <2>6. MergedWhileFits'
    <3>1. ASSUME NEW i \in 1 .. n, NEW f \in breaks \cup {len}, Pieces'[i + 1].from <= f
          PROVE  ChunkLength(Pieces'[i]) + 2 + (f - Pieces'[i + 1].from) > Size
      <4>1. i \in 1 .. Len(Pieces) - 1 /\ Pieces'[i] = Pieces[i]
            /\ Pieces'[i + 1].from = Pieces[i + 1].from
        BY <1>3, <2>1, <2>3
      <4> QED BY <3>1, <4>1 DEF MergedWhileFits, ParaInv
    <3>2. Len(Pieces') - 1 = n
      BY <1>3
    <3>3. \A i \in 1 .. n : \A f \in breaks \cup {len} : Pieces'[i + 1].from <= f =>
            ChunkLength(Pieces'[i]) + 2 + (f - Pieces'[i + 1].from) > Size
      BY <3>1
    <3> QED BY <3>2, <3>3, <1>1 DEF MergedWhileFits, ChunkLength
  <2> QED BY <1>1, <2>4, <2>5, <2>6 DEF ParaInv, ParagraphsOnce
<1> QED BY <1>4, <1>5

\* A paragraph starts the next chunk.
LEMMA FlushStep ==
    ASSUME ParaTypeOK, ParaInv, ~returned,
           NEW e \in breaks \cup {len}, Flush(e)
    PROVE  ParaInv'
<1> DEFINE n == Len(Pieces)
<1>0. /\ len \in Nat /\ head \in Nat /\ Size \in Nat /\ next \in Nat
      /\ e \in Nat /\ e > 0 /\ e <= len /\ next <= e
      /\ breaks \subseteq Nat
  BY EndFacts, LengthAssumption, BreaksAssumption, SizeAssumption
     DEF Flush, ParaTypeOK
<1>1. /\ len' = len /\ head' = head /\ breaks' = breaks
      /\ parts' = Append(parts, current) /\ ~returned' /\ next' = e + 2
      /\ current' = [prefix |-> head + 2, from |-> next, to |-> e]
      /\ current # Nothing
  BY DEF Flush, text
<1>2. /\ Pieces = Append(parts, current) /\ Pieces[n] = current
      /\ n \in Nat /\ n > 0
      /\ current.to = next - 2 /\ current.to \in breaks \cup {len}
      /\ current.from <= current.to /\ next > 0
      /\ current.prefix \in Nat /\ current.from \in Nat /\ current.to \in Nat
      /\ DOMAIN Pieces = 1 .. n /\ Pieces \in Seq(ChunkType)
  BY <1>1, PieceFacts DEF ParaTypeOK
<1>3. current' # Nothing /\ Pieces' = Append(Pieces, current')
  BY <1>0, <1>1, <1>2 DEF Nothing, Pieces
<1>4. /\ Len(Pieces') = n + 1 /\ Pieces'[n + 1] = current'
      /\ \A i \in 1 .. n : Pieces'[i] = Pieces[i]
      /\ DOMAIN Pieces' = 1 .. n + 1
  BY <1>2, <1>3
<1>5. current.to \in breaks /\ current'.from = current.to + 2
  BY <1>0, <1>1, <1>2
<1>6. Gathered'
  <2>1. Pieces'[1].from = 0
    BY <1>2, <1>4 DEF ParaInv, Gathered
  <2>2. ASSUME NEW i \in 1 .. n
        PROVE  Pieces'[i].to \in breaks /\ Pieces'[i + 1].from = Pieces'[i].to + 2
    <3>1. CASE i = n
      BY <3>1, <1>2, <1>4, <1>5
    <3>2. CASE i < n
      <4>1. i \in 1 .. Len(Pieces) - 1 /\ Pieces'[i] = Pieces[i] /\ Pieces'[i + 1] = Pieces[i + 1]
        BY <3>2, <1>2, <1>4
      <4>2. Pieces[i].to \in breaks /\ Pieces[i + 1].from = Pieces[i].to + 2
        BY <4>1 DEF ParaInv, Gathered
      <4> QED BY <4>1, <4>2
    <3> QED BY <3>1, <3>2, <1>2
  <2>3. current'.to = next' - 2 /\ current'.to \in breaks \cup {len} /\ current'.from <= current'.to
    BY <1>0, <1>1
  <2> QED BY <1>0, <1>1, <1>2, <1>3, <1>4, <2>1, <2>2, <2>3 DEF Gathered
<1>7. LongPartIsAlone'
  <2>1. \A b \in breaks : ~(next <= b /\ b < e)
    BY <1>0 DEF Flush, EndsAt
  <2>2. current'.from = next /\ current'.to = e
    BY <1>1
  <2>3. ASSUME NEW i \in 1 .. n + 1, ChunkLength(Pieces'[i]) > Size
        PROVE  \A b \in breaks : ~(Pieces'[i].from <= b /\ b < Pieces'[i].to)
    <3>1. CASE i = n + 1
      BY <3>1, <2>1, <2>2, <1>4
    <3>2. CASE i \in 1 .. n
      BY <3>2, <2>3, <1>2, <1>4 DEF LongPartIsAlone, ParaInv
    <3> QED BY <3>1, <3>2, <1>2
  <2> QED BY <2>3, <1>1, <1>4 DEF LongPartIsAlone, ChunkLength
<1>8. NoEmptyPiece'
  <2>1. ChunkLength(current') > 0
    BY <1>0, <1>1 DEF ChunkLength
  <2>2. ASSUME NEW i \in 1 .. n + 1 PROVE ChunkLength(Pieces'[i]) > 0
    <3>1. CASE i = n + 1
      BY <3>1, <2>1, <1>4
    <3>2. CASE i \in 1 .. n
      BY <3>2, <1>2, <1>4 DEF NoEmptyPiece, ParaInv
    <3> QED BY <3>1, <3>2, <1>2
  <2> QED BY <2>2, <1>4 DEF NoEmptyPiece, ChunkLength
<1>9. MergedWhileFits'
  <2>1. ChunkLength(current) + 2 + (e - next) > Size
    <3>1. ChunkLength(Candidate(e)) > Size
      BY DEF Flush, Overflows
    <3>2. Candidate(e).prefix = current.prefix /\ Candidate(e).from = current.from /\ Candidate(e).to = e
      BY DEF Candidate, ParaTypeOK, ChunkType
    <3> QED BY <3>1, <3>2, <1>0, <1>2 DEF ChunkLength
  <2>2. \A f \in breaks \cup {len} : next <= f => e <= f /\ f \in Nat
    BY <1>0 DEF Flush, EndsAt
  <2>3. ASSUME NEW i \in 1 .. n, NEW f \in breaks \cup {len}, Pieces'[i + 1].from <= f
        PROVE  ChunkLength(Pieces'[i]) + 2 + (f - Pieces'[i + 1].from) > Size
    <3>1. CASE i = n
      <4>1. Pieces'[i] = current /\ Pieces'[i + 1].from = next
        BY <3>1, <1>1, <1>2, <1>4
      <4>2. f \in Nat /\ e <= f
        BY <4>1, <2>2, <2>3
      <4>3. ChunkLength(current) \in Int
        BY <1>2 DEF ChunkLength
      <4>4. ChunkLength(current) + 2 + (f - next) > Size
        BY <4>2, <4>3, <2>1, <1>0
      <4> QED BY <4>1, <4>4
    <3>2. CASE i < n
      <4>0. i \in 1 .. n - 1 /\ i + 1 \in 1 .. n
        BY <3>2, <1>2
      <4>1. Pieces'[i] = Pieces[i] /\ Pieces'[i + 1] = Pieces[i + 1] /\ i \in 1 .. n - 1
        BY <4>0, <1>4
      <4> QED BY <4>1, <2>3 DEF MergedWhileFits, ParaInv
    <3> QED BY <3>1, <3>2, <1>2
  <2>4. \A i \in 1 .. n : \A f \in breaks \cup {len} : Pieces'[i + 1].from <= f =>
          ChunkLength(Pieces'[i]) + 2 + (f - Pieces'[i + 1].from) > Size
    BY <2>3
  <2>5. Len(Pieces') - 1 = n
    BY <1>2, <1>4
  <2> QED BY <2>4, <2>5, <1>1 DEF MergedWhileFits, ChunkLength
<1> QED BY <1>1, <1>6, <1>7, <1>8, <1>9 DEF ParaInv, ParagraphsOnce

\* The last chunk is complete: the pieces are the result.
LEMMA ReturnStep ==
    ASSUME ParaTypeOK, ParaInv, ParaReturn
    PROVE  ParaInv'
<1>0. len \in Nat /\ len > 0 /\ next \in Nat /\ next > len /\ next <= len + 2
      /\ \A b \in breaks : b + 2 <= len /\ b \in Nat
  BY LengthAssumption, BreaksAssumption DEF ParaReturn, ParaTypeOK
<1>1. /\ ~returned /\ returned' /\ len' = len /\ breaks' = breaks
      /\ parts' = Append(parts, current)
  BY DEF ParaReturn, text
<1>2. current # Nothing
  BY <1>0, <1>1 DEF ParaInv, Gathered
<1>3. Pieces = parts' /\ Pieces' = parts'
  BY <1>1, <1>2 DEF Pieces
<1>4. /\ parts' # <<>> /\ Len(parts') = Len(Pieces) /\ parts'[Len(parts')] = current
      /\ current.to = next - 2 /\ current.to \in breaks \cup {len}
  <2>1. Len(Pieces) = Len(parts) + 1 /\ Pieces[Len(parts) + 1] = current
        /\ current.to = next - 2 /\ current.to \in breaks \cup {len} /\ Pieces # <<>>
    BY <1>1, <1>2, PieceFacts
  <2> QED BY <2>1, <1>3
<1>5. current.to = len
  BY <1>0, <1>4
<1>6. ParagraphsOnce'
  BY <1>1, <1>3, <1>4, <1>5 DEF ParagraphsOnce, ParaInv, Gathered
<1>7. LongPartIsAlone' /\ NoEmptyPiece' /\ MergedWhileFits'
  BY <1>1, <1>3 DEF ParaInv, LongPartIsAlone, NoEmptyPiece, MergedWhileFits, ChunkLength
<1> QED BY <1>1, <1>6, <1>7 DEF ParaInv

\* ParaInv holds in every state.
THEOREM ParaInvariant == ParaSpec => []ParaInv
<1>1. ParaInit => ParaInv
  <2> SUFFICES ASSUME ParaInit PROVE ParaInv
    OBVIOUS
  <2>1. Pieces = <<>> /\ ~returned /\ next = 0 /\ current = Nothing /\ parts = <<>>
    BY DEF ParaInit, Pieces
  <2> QED BY <2>1 DEF ParaInv, Gathered, ParagraphsOnce, LongPartIsAlone, MergedWhileFits,
                      NoEmptyPiece
<1>2. ParaTypeOK /\ ParaInv /\ [ParaNext]_paraVars => ParaInv'
  <2> SUFFICES ASSUME ParaTypeOK, ParaInv, [ParaNext]_paraVars PROVE ParaInv'
    OBVIOUS
  <2>1. CASE ParaWhole
    <3>1. /\ returned' /\ len' = len /\ breaks' = breaks /\ len \in Nat /\ len > 0
          /\ len <= Size /\ Size \in Nat
          /\ parts' = <<[prefix |-> 0, from |-> 0, to |-> len]>>
      BY <2>1, LengthAssumption, SizeAssumption DEF ParaWhole, text, ParaTypeOK
    <3>2. /\ Pieces' = parts' /\ Len(parts') = 1 /\ DOMAIN parts' = {1} /\ parts' # <<>>
          /\ parts'[1] = [prefix |-> 0, from |-> 0, to |-> len]
      BY <3>1 DEF Pieces
    <3>3. ParagraphsOnce'
      BY <3>1, <3>2 DEF ParagraphsOnce
    <3>4. LongPartIsAlone' /\ NoEmptyPiece' /\ MergedWhileFits'
      BY <3>1, <3>2 DEF LongPartIsAlone, NoEmptyPiece, MergedWhileFits, ChunkLength
    <3> QED BY <3>1, <3>3, <3>4 DEF ParaInv
  <2>2. CASE Paragraph
    BY <2>2, MergeStep, FlushStep DEF Paragraph
  <2>3. CASE ParaReturn
    BY <2>3, ReturnStep
  <2>4. CASE UNCHANGED paraVars
    <3>1. /\ len' = len /\ breaks' = breaks /\ next' = next /\ current' = current
          /\ parts' = parts /\ returned' = returned
      BY <2>4 DEF paraVars
    <3>2. Pieces' = Pieces
      BY <3>1 DEF Pieces
    <3>3. (~returned => Gathered)' /\ ParagraphsOnce'
      BY <3>1, <3>2 DEF ParaInv, Gathered, ParagraphsOnce
    <3>4. LongPartIsAlone' /\ MergedWhileFits' /\ NoEmptyPiece'
      BY <3>1, <3>2 DEF ParaInv, LongPartIsAlone, MergedWhileFits, NoEmptyPiece, ChunkLength
    <3> QED BY <3>3, <3>4 DEF ParaInv
  <2> QED BY <2>1, <2>2, <2>3, <2>4 DEF ParaNext
<1> QED BY <1>1, <1>2, ParaTypeCorrect, PTL DEF ParaSpec

\* The chunks of a note are its paragraphs, each once and in their order.
THEOREM ParagraphsKept == ParaSpec => []ParagraphsOnce
BY ParaInvariant, PTL DEF ParaInv

\* internal/indexing/chunk.go:116, :32: a chunk that is longer than the limit, with its
\* header and the separator after it counted, holds one single paragraph. (It may be the
\* header that makes it too long.)
THEOREM OnlyParagraphsExceed == ParaSpec => []LongPartIsAlone
BY ParaInvariant, PTL DEF ParaInv

\* docs/whitepaper.md:182: no chunk ends while the next paragraph still fits it.
THEOREM MergedToTheLimit == ParaSpec => []MergedWhileFits
BY ParaInvariant, PTL DEF ParaInv

-----------------------------------------------------------------------------
(* Chunk: the strategies together *)

\* Chunk runs one of the two loops, or neither: each of them takes only its own steps.
LEMMA ChunkerRunsLoops == ChunkerSpec => Spec /\ ParaSpec
<1>1. ChunkerInit => Init /\ ParaInit
  BY DEF ChunkerInit
<1>2. [ChunkerNext]_chunkerVars => [Next]_vars
  BY DEF ChunkerNext, Paragraphs, Windows, ParaNext, ParaWhole, Paragraph, ParaReturn,
         Merge, Flush, chunkerVars, vars, text
<1>3. [ChunkerNext]_chunkerVars => [ParaNext]_paraVars
  BY DEF ChunkerNext, Paragraphs, Windows, Next, Whole, Cut, args,
         chunkerVars, vars, paraVars
<1> QED BY <1>1, <1>2, <1>3, PTL DEF ChunkerSpec, Spec, ParaSpec

\* Types, for every strategy.
THEOREM ChunkerTypeCorrect == ChunkerSpec => []ChunkerTypeOK
<1> DEFINE Kind == strategy \in {"whole", "paragraph", "window"} /\ inside \subseteq Inside
<1>1. ChunkerInit => Kind
  BY DEF ChunkerInit
<1>2. Kind /\ [ChunkerNext]_chunkerVars => Kind'
  BY DEF ChunkerNext, chunkerVars
<1>3. ChunkerSpec => []Kind
  BY <1>1, <1>2, PTL DEF ChunkerSpec
<1>4. WindowTypeOK /\ ParaTypeOK /\ Kind => ChunkerTypeOK
  BY DEF ChunkerTypeOK
<1> QED BY <1>3, <1>4, ChunkerRunsLoops, WindowTypeCorrect, ParaTypeCorrect, PTL

\* No window is empty: each ends after where it begins.
LEMMA NoEmptyWindow == Spec => [](\A i \in DOMAIN chunks : ChunkLength(chunks[i]) > 0)
<1> DEFINE NoneEmpty == \A i \in DOMAIN chunks : ChunkLength(chunks[i]) > 0
<1>1. Init => NoneEmpty
  BY DEF Init
<1>2. WindowTypeOK /\ NoneEmpty /\ [Next]_vars => NoneEmpty'
  <2> SUFFICES ASSUME WindowTypeOK, NoneEmpty, [Next]_vars PROVE NoneEmpty'
    OBVIOUS
  <2>1. CASE Whole
    BY <2>1, Sizes DEF Whole, ChunkLength
  <2>2. CASE Cut
    <3>1. Prefix \in Nat /\ pos \in Nat /\ End \in Nat /\ pos < End
      BY Sizes DEF Prefix, WindowTypeOK
    <3>2. ASSUME NEW i \in 1 .. Len(chunks) + 1 PROVE ChunkLength(chunks'[i]) > 0
      <4>1. CASE i = Len(chunks) + 1
        BY <4>1, <2>2, <3>1, CutAppends DEF ChunkLength
      <4>2. CASE i # Len(chunks) + 1
        BY <4>2, <2>2, CutAppends
      <4> QED BY <4>1, <4>2
    <3> QED BY <3>2, <2>2, CutAppends DEF ChunkLength
  <2>3. CASE UNCHANGED vars
    BY <2>3 DEF vars, ChunkLength
  <2> QED BY <2>1, <2>2, <2>3 DEF Next
<1> QED BY <1>1, <1>2, WindowTypeCorrect, PTL DEF Spec

\* A record's chunks are numbered 0 .. n-1 with n > 0, whatever its type and text:
\* what the indexing path takes for granted of them.
THEOREM ChunksAreNumbered == ChunkerSpec => []IndexesHaveNoGap
<1>1. /\ ChunkerTypeOK /\ WindowInv /\ ParaInv
      /\ \A i \in DOMAIN chunks : ChunkLength(chunks[i]) > 0
      => IndexesHaveNoGap
  <2> SUFFICES ASSUME ChunkerTypeOK, WindowInv, ParaInv, Chunked,
                      \A i \in DOMAIN chunks : ChunkLength(chunks[i]) > 0
               PROVE  Segments # <<>> /\ ChunkIndexes = DOMAIN Segments
    BY DEF IndexesHaveNoGap
  <2>1. CASE strategy = "whole"
    <3>1. Segments = <<[prefix |-> 0, from |-> 0, to |-> len]>> /\ len \in Nat /\ len > 0
      BY <2>1, LengthAssumption DEF Segments, ChunkerTypeOK, WindowTypeOK
    <3>2. DOMAIN Segments = {1} /\ ChunkLength(Segments[1]) > 0 /\ Segments # <<>>
      BY <3>1 DEF ChunkLength
    <3> QED BY <3>2 DEF ChunkIndexes
  <2>2. CASE strategy = "paragraph"
    <3>1. Segments = parts /\ returned
      BY <2>2 DEF Segments, Chunked
    <3>2. parts # <<>> /\ Pieces = parts
      BY <3>1 DEF ParaInv, ParagraphsOnce, Pieces
    <3>3. \A i \in DOMAIN Segments : ChunkLength(Segments[i]) > 0
      BY <3>1, <3>2 DEF ParaInv, NoEmptyPiece
    <3> QED BY <3>1, <3>2, <3>3 DEF ChunkIndexes
  <2>3. CASE strategy = "window"
    <3>1. Segments = chunks /\ done
      BY <2>3 DEF Segments, Chunked
    <3>2. chunks # <<>>
      BY <3>1 DEF WindowInv, BetweenTurns
    <3> QED BY <3>1, <3>2 DEF ChunkIndexes
  <2> QED BY <2>1, <2>2, <2>3 DEF ChunkerTypeOK
<1> QED BY <1>1, ChunkerRunsLoops, ChunkerTypeCorrect, WindowInvariant, ParaInvariant,
           NoEmptyWindow, PTL
=============================================================================
