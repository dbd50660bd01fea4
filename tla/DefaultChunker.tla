---------------------------- MODULE DefaultChunker ----------------------------
(***************************************************************************)
(* DefaultChunker.Chunk: the record's type chooses between one chunk,      *)
(* paragraphs and windows, and the segments are numbered.                  *)
(***************************************************************************)
EXTENDS SlidingWindow, ParagraphSplit

CONSTANT
    Inside   \* offsets that lie inside a character of several bytes, in some text

VARIABLES
    strategy,   \* "whole", "paragraph" or "window"
    inside      \* the offsets of this text that do

chunkerVars == <<vars, breaks, next, current, parts, returned, strategy, inside>>

ChunkerTypeOK ==
    /\ WindowTypeOK /\ ParaTypeOK
    /\ strategy \in {"whole", "paragraph", "window"}
    /\ inside \subseteq Inside

\* The header, and a separator, are bounded by newlines, which are characters.
ChunkerInit ==
    /\ Init /\ ParaInit
    /\ strategy \in {"whole", "paragraph", "window"}
    /\ inside \in SUBSET {o \in Inside : o < len}
    /\ \A b \in breaks : {b, b + 1, b + 2} \cap inside = {}
    /\ head \notin inside

\* note
Paragraphs ==
    /\ strategy = "paragraph"
    /\ ParaNext
    /\ UNCHANGED <<overlap, pos, chunks, done>>

\* ticket, log, document, email, and every other type
Windows ==
    /\ strategy = "window"
    /\ Next
    /\ UNCHANGED <<breaks, next, current, parts, returned>>

ChunkerNext == (Paragraphs \/ Windows) /\ UNCHANGED <<strategy, inside>>

ChunkerSpec == ChunkerInit /\ [][ChunkerNext]_chunkerVars

\* scan, movement and photo: the text is the only segment.
Segments ==
    CASE strategy = "whole"     -> <<[prefix |-> 0, from |-> 0, to |-> len]>>
      [] strategy = "paragraph" -> parts
      [] strategy = "window"    -> chunks

Chunked ==
    \/ strategy = "whole"
    \/ strategy = "paragraph" /\ returned
    \/ strategy = "window" /\ done

\* Chunk passes over an empty segment, but not over its number.
ChunkIndexes == {i \in DOMAIN Segments : ChunkLength(Segments[i]) > 0}

-----------------------------------------------------------------------------
(* What the indexing path takes for granted, and what a document says *)

\* A record has at least one chunk, and its chunks' indexes have no gap, so they
\* are 0 .. n-1 as TrackedRecords!Chunks has them: UpsertChunks of a record
\* without chunks would report it indexed.
IndexesHaveNoGap ==
    Chunked => Segments # <<>> /\ ChunkIndexes = DOMAIN Segments

\* docs/whitepaper.md:186: what lies at the border of two chunks is not lost. Half a
\* character is no text to PostgreSQL, which refuses the record's rows.
BordersBetweenCharacters ==
    Chunked =>
        \A i \in DOMAIN Segments : {Segments[i].from, Segments[i].to} \cap inside = {}
=============================================================================
