------------------------- MODULE MCValidatorReload -------------------------
(***************************************************************************)
(* Constants for checking ValidatorReload.                                 *)
(***************************************************************************)
EXTENDS ValidatorReload

CONSTANT r1
=============================================================================
