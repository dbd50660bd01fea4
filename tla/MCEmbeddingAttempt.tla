------------------------- MODULE MCEmbeddingAttempt -------------------------
(***************************************************************************)
(* EmbeddingAttempt with batches of 2 for 32: records of one chunk, of one *)
(* full batch, of a batch and one, of two full batches, and of three.      *)
(***************************************************************************)
EXTENDS EmbeddingAttempt

CONSTANTS r1, r2, r3, r4, r5

SomeCounts == [r \in Records |->
    CASE r = r1 -> 1 [] r = r2 -> 2 [] r = r3 -> 3 [] r = r4 -> 4 [] r = r5 -> 5]
=============================================================================
