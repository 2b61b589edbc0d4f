----------------------- MODULE ConfigStoreRefinement -----------------------
(***************************************************************************)
(* ConfigStore implements ActiveGeneration: a commit registers, activates  *)
(* or does nothing, in one step, and no other statement can be seen.       *)
(***************************************************************************)
EXTENDS ConfigStore

CONSTANT Content    \* what a generation may consist of

ASSUME ContentAssumption == Distinct(Stored) \subseteq Content

\* The stored schema a generation refers to.
RowOf(s) == CHOOSE r \in schemas : r.schema = s

Generations == {[id |-> g.id, content |-> [i \in DOMAIN g.refs |-> RowOf(g.refs[i])]] : g \in gens}

ActiveId == IF Active = {} THEN 0 ELSE CHOOSE id \in Active : TRUE

Promise == INSTANCE ActiveGeneration WITH known <- Generations, active <- ActiveId

\* Generations never change, activations are atomic, and none is silent.
ActivationsAreAtomic == Promise!Spec
=============================================================================
