-------------------------- MODULE MCDefaultChunker --------------------------
(***************************************************************************)
(* DefaultChunker at about 1/200 of its size: chunks of 10 for 2048 bytes, *)
(* overlaps of 1 and 2 for 200 and 400, headers up to 11 for some 2300,    *)
(* the longest that validation admits. The separators' places leave        *)
(* paragraphs that are empty, short, of exactly a chunk and longer.        *)
(***************************************************************************)
EXTENDS DefaultChunker

SomeOverlaps == {1, 2}
SomeHeaders == 1 .. 11
SomeLengths == 2 .. 32
SomeBreaks == {2, 4, 9, 12, 20}
=============================================================================
