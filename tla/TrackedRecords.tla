--------------------------- MODULE TrackedRecords ---------------------------
(***************************************************************************)
(* The records that the modules of the indexing path are about, and the    *)
(* chunks each is cut into. A record is named by its record_id. It never   *)
(* changes once stored, Chunk is a function and so is GenerateText unless  *)
(* two values of the payload flatten to one name (PayloadText): every      *)
(* worker cuts it into the same chunks, at least one, as the text starts   *)
(* with a header line and no strategy drops it.                            *)
(***************************************************************************)
EXTENDS Integers

CONSTANTS
    Records,      \* record_ids
    ChunkCount    \* ChunkCount[r]: chunks that DefaultChunker returns for r

ASSUME ChunkAssumption == ChunkCount \in [Records -> Nat \ {0}]

\* The chunk_index values of a record's rows in record_embeddings.
Chunks(r) == 0 .. ChunkCount[r] - 1
=============================================================================
