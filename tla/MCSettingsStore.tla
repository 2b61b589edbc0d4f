-------------------------- MODULE MCSettingsStore --------------------------
(***************************************************************************)
(* Constants for checking SettingsStore and its refinement.                *)
(***************************************************************************)
EXTENDS SettingsStoreRefinement, SequencesExt

CONSTANTS o1, o2, t1, t2, t3

\* Row 4 belongs to o2, all others to o1.
MCOwnerOf == [k \in Row |-> IF k = 4 THEN o2 ELSE o1]

\* Every batch a request of the model can change: properties of one owner, in
\* order.
MCBatches == {ks \in BoundedSeq(Prop, MaxId) : \A i, j \in DOMAIN ks :
                 i < j => ks[i] <= ks[j] /\ MCOwnerOf[ks[i]] = MCOwnerOf[ks[j]]}

Symmetry == Permutations(Tx)
=============================================================================
