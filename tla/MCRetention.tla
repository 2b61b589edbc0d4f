---------------------------- MODULE MCRetention -----------------------------
(***************************************************************************)
(* Constants for checking Retention.                                       *)
(***************************************************************************)
EXTENDS Retention

CONSTANTS r1, r2
=============================================================================
