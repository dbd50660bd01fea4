---------------------------- MODULE MCRecordQuery ----------------------------
(***************************************************************************)
(* RecordQuery with records A (chunks a1 and a2), B and C. Of the blocks,  *)
(* a2 alone is over the limit, b1 and c1 together fit it exactly, and a1   *)
(* with either exceeds it by one byte.                                     *)
(***************************************************************************)
EXTENDS RecordQuery, TLC

CONSTANTS a1, a2, b1, c1, A, B, C, e1, e2

TheRecords == (a1 :> A) @@ (a2 :> A) @@ (b1 :> B) @@ (c1 :> C)
TheEntities == (a1 :> e1) @@ (a2 :> e1) @@ (b1 :> e1) @@ (c1 :> None)
TheTimes == (a1 :> 1) @@ (a2 :> 1) @@ (b1 :> 2) @@ (c1 :> 2)
TheTexts == (a1 :> 5) @@ (a2 :> 11) @@ (b1 :> 4) @@ (c1 :> 4)

\* 0 and 9 are outside the limits that either endpoint takes.
SomeAsks ==
    [endpoint : Endpoints, scope : {None, e1, e2}, hint : {None, e1},
     from : {None, Malformed, 2}, limit : {0, 1, 9}]

SomeMaxLimits == ("query" :> 3) @@ ("search" :> 4)
=============================================================================
