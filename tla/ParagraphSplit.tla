---------------------------- MODULE ParagraphSplit ----------------------------
(***************************************************************************)
(* splitParagraph: the paragraphs of a note are put together again while   *)
(* they fit a chunk; one that does not fit starts the next chunk, after    *)
(* the header. One step is one turn of the loop over the paragraphs.       *)
(*                                                                         *)
(* The text is known by where its paragraphs end: the offsets at which     *)
(* strings.Split finds a pair of newlines. Two of them may follow one      *)
(* another at once, around an empty paragraph; the first paragraph never   *)
(* is empty, because the text starts with the record's type.               *)
(***************************************************************************)
EXTENDS ChunkText

CONSTANT
    Breaks   \* offsets a separator may have

ASSUME BreaksAssumption == Breaks \subseteq Nat \ {0}

VARIABLES
    breaks,     \* the offsets of the text's separators
    next,       \* where the paragraph of this turn begins
    current,    \* the chunk that is being put together; to = 0 while it is ""
    parts,      \* result
    returned    \* the function has returned

text == <<len, head, breaks>>
paraVars == <<len, head, breaks, next, current, parts, returned>>

ParaTypeOK ==
    /\ len \in Lengths /\ head \in Headers
    /\ breaks \subseteq {b \in Breaks : b + 2 <= len}
    /\ next \in 0 .. len + 2
    /\ current \in ChunkType
    /\ parts \in Seq(ChunkType)
    /\ returned \in BOOLEAN

Nothing == [prefix |-> 0, from |-> 0, to |-> 0]

ParaInit ==
    /\ TextInit
    /\ breaks \in SUBSET {b \in Breaks : b + 2 <= len}
    /\ \A a, b \in breaks : a < b => a + 2 <= b
    /\ next = 0
    /\ current = Nothing
    /\ parts = <<>>
    /\ returned = FALSE

\* The paragraph that begins at next ends at e: the next separator, or the text's end.
EndsAt(e) ==
    /\ e \in breaks \cup {len}
    /\ next <= e
    /\ \A b \in breaks : b < e => b < next

\* What was put together so far, the separator, and the paragraph.
Candidate(e) == [current EXCEPT !.to = e]

\* A slip: the header does not count, as if it were put before the chunk later.
OverflowsBare(e) == Candidate(e).to - Candidate(e).from > Size

\* A slip: a chunk of exactly the limit is one too long.
OverflowsAtSize(e) == ChunkLength(Candidate(e)) >= Size

\* The paragraph does not fit the chunk any more.
Overflows(e) == ChunkLength(Candidate(e)) > Size

\* The text fits one chunk.
ParaWhole ==
    /\ ~returned
    /\ len <= Size
    /\ parts' = <<[prefix |-> 0, from |-> 0, to |-> len]>>
    /\ returned' = TRUE
    /\ UNCHANGED <<text, next, current>>

Merge(e) ==
    /\ EndsAt(e)
    /\ ~(Overflows(e) /\ current # Nothing)
    /\ current' = Candidate(e)
    /\ next' = e + 2
    /\ UNCHANGED <<text, parts, returned>>

\* A slip: the new chunk begins with the header alone.
FlushForgetting(e) ==
    /\ EndsAt(e)
    /\ Overflows(e)
    /\ current # Nothing
    /\ parts' = Append(parts, current)
    /\ current' = [prefix |-> head + 2, from |-> e, to |-> e]
    /\ next' = e + 2
    /\ UNCHANGED <<text, returned>>

\* A slip: also a first paragraph that is too long ends a chunk, an empty one.
FlushEmpty(e) ==
    /\ EndsAt(e)
    /\ Overflows(e)
    /\ parts' = Append(parts, current)
    /\ current' = [prefix |-> head + 2, from |-> next, to |-> e]
    /\ next' = e + 2
    /\ UNCHANGED <<text, returned>>

Flush(e) ==
    /\ EndsAt(e)
    /\ Overflows(e)
    /\ current # Nothing
    /\ parts' = Append(parts, current)
    /\ current' = [prefix |-> head + 2, from |-> next, to |-> e]
    /\ next' = e + 2
    /\ UNCHANGED <<text, returned>>

Paragraph ==
    /\ ~returned
    /\ len > Size
    /\ \E e \in breaks \cup {len} : Merge(e) \/ Flush(e)

\* The paragraphs are used up, and the last chunk is complete.
ParaReturn ==
    /\ ~returned
    /\ len > Size
    /\ next > len
    /\ parts' = Append(parts, current)
    /\ returned' = TRUE
    /\ UNCHANGED <<text, next, current>>

ParaNext == ParaWhole \/ Paragraph \/ ParaReturn

ParaSpec == ParaInit /\ [][ParaNext]_paraVars

-----------------------------------------------------------------------------
(* What the split is for *)

\* The chunks are the paragraphs of the text, each once and in their order: between
\* two chunks there is one separator and nothing else.
ParagraphsOnce ==
    returned =>
        /\ parts # <<>>
        /\ parts[1].from = 0
        /\ parts[Len(parts)].to = len
        /\ \A i \in 1 .. Len(parts) - 1 :
             /\ parts[i].to \in breaks
             /\ parts[i + 1].from = parts[i].to + 2

\* The chunks so far, the one in hand included.
Pieces == IF returned \/ current = Nothing THEN parts ELSE Append(parts, current)

\* internal/indexing/chunk.go:116, :32: a chunk longer than the limit holds one single
\* paragraph, which splitParagraph has no way to cut. The limit counts the header put
\* before it (chunk.go:136), so the paragraph itself may be within the limit.
LongPartIsAlone ==
    \A i \in DOMAIN Pieces :
        ChunkLength(Pieces[i]) > Size =>
            \A b \in breaks : ~(Pieces[i].from <= b /\ b < Pieces[i].to)

\* docs/whitepaper.md:182: paragraphs are put together while they fit, so the
\* paragraph that starts a chunk did not fit the one before, by a byte at least.
MergedWhileFits ==
    \A i \in 1 .. Len(Pieces) - 1 :
        \A e \in breaks \cup {len} :
            Pieces[i + 1].from <= e =>
                ChunkLength(Pieces[i]) + 2 + (e - Pieces[i + 1].from) > Size

-----------------------------------------------------------------------------
(* Why it holds: the inductive invariant *)

\* Between two turns of the loop the pieces are what lies before next.
Gathered ==
    /\ (current = Nothing) <=> (next = 0)
    /\ current = Nothing => parts = <<>>
    /\ next # 0 =>
         /\ current.to = next - 2 /\ current.to \in breaks \cup {len}
         /\ current.from <= current.to
    /\ \A i \in 1 .. Len(Pieces) - 1 :
         Pieces[i].to \in breaks /\ Pieces[i + 1].from = Pieces[i].to + 2
    /\ Pieces # <<>> => Pieces[1].from = 0

\* No chunk is "".
NoEmptyPiece == \A i \in DOMAIN Pieces : ChunkLength(Pieces[i]) > 0

ParaInv ==
    /\ ~returned => Gathered
    /\ ParagraphsOnce /\ LongPartIsAlone /\ MergedWhileFits /\ NoEmptyPiece
=============================================================================
