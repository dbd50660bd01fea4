---------------------------- MODULE RecordChecksum ----------------------------
(***************************************************************************)
(* The checksum of a record: computed by Ingest from the record in memory, *)
(* kept beside the row, and computed again by whoever audits the table.    *)
(* SHA-256 is taken to have no collisions, so a checksum is its pre-image. *)
(***************************************************************************)
EXTENDS Integers, Sequences

CONSTANTS
    Names,      \* values of source and record_type: sequences of characters
    Refs,       \* values of entity_ref and actor_ref
    Payloads,
    Times,      \* occurred_at, in units of a hundred nanoseconds
    NoRow

VARIABLES
    row,        \* the row in the table
    ingested,   \* the row as Append wrote it
    checksum    \* the row's checksum column

vars == <<row, ingested, checksum>>

Record == [occurredAt : Times, source : Names, recordType : Names,
           entityRef : Refs, actorRef : Refs, payload : Payloads]

\* TIMESTAMPTZ keeps microseconds; pgx cuts off what is below.
Stored(r) == [r EXCEPT !.occurredAt = 10 * (@ \div 10)]

Separator == "|"

\* strings.Join does not escape a separator inside a field. The timestamp and the
\* payload, which is a JSON object, need no more than a place of their own.
PreImage(r) ==
    <<r.occurredAt, Separator>> \o r.source \o <<Separator>> \o r.recordType
        \o <<Separator, r.payload>>

Init == row = NoRow /\ ingested = NoRow /\ checksum = <<>>

\* The checksum is computed first, and Append stores what the column keeps.
Ingest ==
    /\ row = NoRow
    /\ \E r \in Record :
         /\ checksum' = PreImage(r)
         /\ row' = Stored(r)
         /\ ingested' = Stored(r)

\* Someone who has access to the table changes a row. The program has no UPDATE.
Alter ==
    /\ row # NoRow
    /\ \E r \in Record : row' = Stored(r)
    /\ UNCHANGED <<ingested, checksum>>

Next == Ingest \/ Alter

Spec == Init /\ [][Next]_vars

-----------------------------------------------------------------------------
(* What a document says and the code does not do *)

\* docs/paper-motor-vs-adapters.md:178: the checksum is computed over occurred_at,
\* source, record_type, entity_ref, actor_ref and payload, and every later
\* alteration can be detected, by computing it again.
AlterationDetectable == row # ingested => PreImage(row) # checksum
=============================================================================
