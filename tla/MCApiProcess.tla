----------------------------- MODULE MCApiProcess -----------------------------
(***************************************************************************)
(* ApiProcess with two requests whose checks, handlers and updates share   *)
(* one connection, and two keys.                                           *)
(***************************************************************************)
EXTENDS ApiProcess
=============================================================================
