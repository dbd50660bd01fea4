------------------------------ MODULE ChunkText ------------------------------
(***************************************************************************)
(* The text of a record as the chunker sees it, and the pieces it is cut   *)
(* into. Lengths and offsets are bytes, as len and slices are in Go. A     *)
(* chunk is the bytes from .. to-1 of the text, after a prefix: the header *)
(* and two newlines, or nothing.                                           *)
(***************************************************************************)
EXTENDS Integers, Sequences

CONSTANTS
    Size,      \* maxChars: 512 tokens of 4 characters
    Headers,   \* lengths of extractHeader's result
    Lengths    \* lengths of the text

ASSUME SizeAssumption == Size \in Nat \ {0}
ASSUME LengthAssumption == Headers \subseteq Nat /\ Lengths \subseteq Nat \ {0}

VARIABLES len, head

ChunkType == [prefix : Nat, from : Nat, to : Nat]

ChunkLength(c) == c.prefix + c.to - c.from

\* The header is a proper prefix of the text: TAGS: always follows it.
TextInit == len \in Lengths /\ head \in Headers /\ head < len
=============================================================================
