-------------------------- MODULE MCSystemMessages --------------------------
(***************************************************************************)
(* Constants for checking SystemMessages.                                  *)
(***************************************************************************)
EXTENDS SystemMessages, TLC

CONSTANTS q1, q2, q3, u1, unit1

Symmetry == Permutations(Push) \cup Permutations(Recipient)
=============================================================================
