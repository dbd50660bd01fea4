-------------------------- MODULE MCRecordIndexing --------------------------
(***************************************************************************)
(* RecordIndexing on small instances: values of its constants for TLC.     *)
(***************************************************************************)
EXTENDS RecordIndexing

CONSTANTS r1, r2, w1, w2

\* Every record has two chunks: the fewest for which there is a half-written
\* record, and two writers that could lock its rows in opposite orders.
TwoChunks == [r \in Records |-> 2]
=============================================================================
