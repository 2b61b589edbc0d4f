--------------------------- MODULE MCConfigStore ---------------------------
(***************************************************************************)
(* Constants for checking ConfigStore and its refinement.                  *)
(***************************************************************************)
EXTENDS ConfigStoreRefinement, TLC

CONSTANTS sa, sb, p, q, t1, t2, t3

MCContent == Distinct(Stored)

Settings(s, c) == [schema |-> s, spec |-> c, usage |-> "settings"]

\* One schema with two specs, one that must be stored, and the set of both
\* schemas in both orders.
MCRegistrations == {<<Settings(sa, p)>>, <<Settings(sa, q)>>, <<Settings(sb, Omitted)>>,
                    <<Settings(sa, Omitted), Settings(sb, p)>>,
                    <<Settings(sb, p), Settings(sa, p)>>}

\* One schema version, with every spec and usage.
MCVersions == {<<[schema |-> sa, spec |-> c, usage |-> u]>> : c \in SchemaSpec \cup {Omitted}, u \in Usage}

Symmetry == Permutations(Client)
=============================================================================
