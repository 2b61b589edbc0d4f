---------------------------- MODULE MCInboxStore ----------------------------
(***************************************************************************)
(* Constants for checking InboxStore.                                      *)
(***************************************************************************)
EXTENDS InboxStore, TLC

CONSTANTS unit, user, s1, s2, q1, q2, c1, c2

\* s1 reads what is addressed to the unit or the user, s2 the unit only.
MCOwners == [s \in Subject |-> IF s = s1 THEN {user, unit} \cap Recipient ELSE {unit} \cap Recipient]

Symmetry == Permutations(Pusher) \cup Permutations(Marker)
=============================================================================
