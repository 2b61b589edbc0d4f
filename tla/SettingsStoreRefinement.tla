---------------------- MODULE SettingsStoreRefinement ----------------------
(***************************************************************************)
(* SettingsStore implements SettingsLog: a Commit is the atomic write, all *)
(* other statements and every rollback are invisible.                      *)
(***************************************************************************)
EXTENDS SettingsStore

CONSTANT Batches

\* The event an eventlog row records.
EventOf(e) == [row |-> e.row, type |-> e.type, version |-> e.version]

\* The eventlog as a sequence.
History == [i \in 1..counter |-> EventOf(CHOOSE e \in log : e.id = i)]

\* The store's writes are atomic and the log is the order they happened in.
Promise == INSTANCE SettingsLog WITH table <- rows, history <- History

\* A write may be about any properties of one owner, in order.
ASSUME BatchesAssumption ==
    /\ Batches \subseteq Seq(Prop)
    /\ \A n \in 1..MaxId : \A ks \in [1..n -> Prop] : Promise!OneRequest(ks) => ks \in Batches

WritesAreAtomic == Promise!Spec
=============================================================================
