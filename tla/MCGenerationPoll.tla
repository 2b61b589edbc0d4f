-------------------------- MODULE MCGenerationPoll --------------------------
(***************************************************************************)
(* Constants for checking GenerationPoll.                                  *)
(***************************************************************************)
EXTENDS GenerationPoll

CONSTANT p1
=============================================================================
