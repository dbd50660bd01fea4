--------------------------- MODULE MCRecordChecksum ---------------------------
(***************************************************************************)
(* RecordChecksum with names that hold the separator, times on a           *)
(* microsecond and beside it, two references and two payloads.             *)
(***************************************************************************)
EXTENDS RecordChecksum

SomeNames == {<<"a">>, <<"a", "|", "a">>}
SomeTimes == {10, 13, 20}
=============================================================================
