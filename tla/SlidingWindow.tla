---------------------------- MODULE SlidingWindow ----------------------------
(***************************************************************************)
(* splitSlidingWindow: the loop that cuts a record's text into windows,    *)
(* each but the first with the text's header put before it. One step is    *)
(* one turn of the loop.                                                   *)
(***************************************************************************)
EXTENDS ChunkText

CONSTANT
    Overlaps   \* overlapChars: 50 or 100 tokens, by record type

ASSUME OverlapAssumption == Overlaps \subseteq 0 .. Size - 1

VARIABLES
    overlap,               \* with len and head, the arguments
    pos,
    chunks,                \* result
    done                   \* the function has returned

args == <<len, head, overlap>>
vars == <<len, head, overlap, pos, chunks, done>>

WindowTypeOK ==
    /\ len \in Lengths /\ head \in Headers /\ overlap \in Overlaps
    /\ pos \in 0 .. len - 1
    /\ chunks \in Seq(ChunkType)
    /\ done \in BOOLEAN

Init ==
    /\ TextInit
    /\ overlap \in Overlaps
    /\ pos = 0
    /\ chunks = <<>>
    /\ done = FALSE

\* contWindow: the header and two newlines take their part of a window, unless
\* they fill it.
ContWindow == IF Size - head - 2 <= 0 THEN Size ELSE Size - head - 2

\* A slip: the header is not counted.
WindowWithoutHeader == Size

Window == IF chunks = <<>> THEN Size ELSE ContWindow

\* A slip: the step is that of a first window every time.
StepOfFirst == Size - overlap

\* A slip: nothing stops a step of zero or less.
StepUnguarded == Window - overlap

Step == IF Window - overlap <= 0 THEN 1 ELSE Window - overlap

End == IF pos + Window > len THEN len ELSE pos + Window

\* The header and two newlines come before every window but the first.
Prefix == IF chunks = <<>> THEN 0 ELSE head + 2

\* The text fits one window.
Whole ==
    /\ ~done
    /\ len <= Size
    /\ chunks' = <<[prefix |-> 0, from |-> 0, to |-> len]>>
    /\ done' = TRUE
    /\ UNCHANGED <<args, pos>>

Cut ==
    /\ ~done
    /\ len > Size
    /\ chunks' = Append(chunks, [prefix |-> Prefix, from |-> pos, to |-> End])
    /\ done' = (End >= len)
    /\ pos' = IF End >= len THEN pos ELSE pos + Step
    /\ UNCHANGED args

Next == Whole \/ Cut

Spec == Init /\ [][Next]_vars

-----------------------------------------------------------------------------
(* What the split is for *)

\* The windows together hold every byte of the text: nothing is lost at a border.
NoByteLost ==
    done => \A b \in 0 .. len - 1 :
              \E i \in DOMAIN chunks : chunks[i].from <= b /\ b < chunks[i].to

\* A chunk fits the window, header included. Only a header that fills a window
\* alone is put before a full window.
FitsWindow ==
    \A i \in DOMAIN chunks :
        ChunkLength(chunks[i]) <= IF head + 2 < Size THEN Size ELSE Size + head + 2

\* What two windows share: the overlap, or all but one byte of a window that is
\* not longer than the overlap.
KeepsOverlap ==
    \A i \in 1 .. Len(chunks) - 1 :
        \/ chunks[i].to - chunks[i + 1].from = overlap
        \/ /\ chunks[i + 1].from = chunks[i].from + 1
           /\ chunks[i].to - chunks[i].from <= overlap

\* How far one window that is not the first moves the next.
ContStep == IF ContWindow <= overlap THEN 1 ELSE ContWindow - overlap

\* The loop ends: the windows, at the distance they keep, fit the text. Their
\* number is bounded by the length over the step, which is one byte when the header
\* leaves no more than the overlap.
FewWindows == Len(chunks) > 1 => Size - overlap + (Len(chunks) - 2) * ContStep < len

-----------------------------------------------------------------------------
(* Why it holds: the inductive invariant *)

Last == chunks[Len(chunks)]

\* Between two turns of the loop: what lies before pos is cut, and pos is where the
\* last window, and the number of windows, put it.
BetweenTurns ==
    /\ chunks = <<>> => pos = 0 /\ ~done
    /\ \A b \in 0 .. len - 1 :
         b < pos => \E i \in DOMAIN chunks : chunks[i].from <= b /\ b < chunks[i].to
    /\ ~done /\ chunks # <<>> =>
         /\ pos = Size - overlap + (Len(chunks) - 1) * ContStep
         /\ \/ Last.to - pos = overlap
            \/ pos = Last.from + 1 /\ Last.to - Last.from <= overlap

WindowInv == BetweenTurns /\ NoByteLost /\ FitsWindow /\ KeepsOverlap /\ FewWindows

=============================================================================
