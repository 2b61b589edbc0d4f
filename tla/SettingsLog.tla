---------------------------- MODULE SettingsLog ----------------------------
(***************************************************************************)
(* What the settings store promises its callers: every successful write is *)
(* one atomic step that changes the rows and appends one event per changed *)
(* row to a log, in the order of the request, with nothing in between.     *)
(* There are no transactions, locks or ids here: the position of an event  *)
(* in history is its id.                                                   *)
(***************************************************************************)
EXTENDS Naturals, Sequences

CONSTANTS
    Doc, Prop,  \* the rows, as in SettingsStore
    OwnerOf,    \* the owner of each row
    Batches     \* the sequences of properties one write may change

VARIABLES
    table,      \* the version of each row, 0 when absent
    history     \* the events so far

Changed(type, k, version) == [row |-> k, type |-> type, version |-> version]

\* The changes of one write to properties name one owner's rows, in order.
OneRequest(ks) == \A i, j \in 1..Len(ks) :
    OwnerOf[ks[i]] = OwnerOf[ks[j]] /\ (i < j => ks[i] <= ks[j])

PutDocument == \E k \in Doc :
    /\ table' = [table EXCEPT ![k] = @ + 1]
    /\ history' = Append(history, Changed("update", k, table[k] + 1))

DropDocument == \E k \in Doc :
    /\ table[k] > 0
    /\ table' = [table EXCEPT ![k] = 0]
    /\ history' = Append(history, Changed("delete", k, 0))

PutProperties == \E ks \in Batches :
    /\ ks # <<>> /\ OneRequest(ks)
    /\ table' = [k \in Doc \cup Prop |->
                   IF \E i \in 1..Len(ks) : ks[i] = k THEN 1 ELSE table[k]]
    /\ history' = history \o [i \in 1..Len(ks) |-> Changed("update", ks[i], 0)]

\* Only properties that exist are dropped, each of them once.
DropProperties == \E ks \in Batches :
    /\ ks # <<>> /\ OneRequest(ks)
    /\ \A i \in 1..Len(ks) : /\ table[ks[i]] > 0
                             /\ \A j \in 1..(i-1) : ks[j] # ks[i]
    /\ table' = [k \in Doc \cup Prop |->
                   IF \E i \in 1..Len(ks) : ks[i] = k THEN 0 ELSE table[k]]
    /\ history' = history \o [i \in 1..Len(ks) |-> Changed("delete", ks[i], 0)]

Init == table = [k \in Doc \cup Prop |-> 0] /\ history = <<>>

Next == PutDocument \/ DropDocument \/ PutProperties \/ DropProperties

Spec == Init /\ [][Next]_<<table, history>>
=============================================================================
