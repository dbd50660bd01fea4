---------------------------- MODULE MCHealthCheck ----------------------------
(***************************************************************************)
(* HealthCheck with one probe at a time that is watched from its first     *)
(* check to its answer, through every change of what it depends on and of  *)
(* what the NATS client believes.                                          *)
(***************************************************************************)
EXTENDS HealthCheck
=============================================================================
