---------------------------- MODULE MCPayloadText ----------------------------
(***************************************************************************)
(* PayloadText with five leaves: the payload {"a": {"b": 1}, "a.b": 2,     *)
(* "c": 3, "d": 4, "e": 5} and its parts. The first two flatten to a.b.    *)
(***************************************************************************)
EXTENDS PayloadText, TLC

CONSTANTS a_b, ab, c, d, e

OneCollision == (a_b :> 1) @@ (ab :> 1) @@ (c :> 2) @@ (d :> 3) @@ (e :> 4)
=============================================================================
