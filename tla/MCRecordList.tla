---------------------------- MODULE MCRecordList ----------------------------
(***************************************************************************)
(* RecordList on small instances.                                          *)
(***************************************************************************)
EXTENDS RecordList

CONSTANTS a, b
=============================================================================
