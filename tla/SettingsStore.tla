--------------------------- MODULE SettingsStore ---------------------------
(***************************************************************************)
(* The settings half of PGStore (internal/settings_store.go): documents    *)
(* and properties, the eventlog that records every change of them, and the *)
(* sequence_counter row that hands out eventlog ids.                       *)
(*                                                                         *)
(* Every write is one PostgreSQL transaction at READ COMMITTED.  A         *)
(* transaction is a process t \in Tx; each statement that can wait for     *)
(* another transaction is an action of its own, guarded by the row lock it *)
(* needs, and what it writes stays in its private state (pending, ev)      *)
(* until Commit.  Abort may hit between any two statements: a cancelled    *)
(* request, a lost connection, a crashed replica or a failed statement all *)
(* roll the transaction back.                                              *)
(*                                                                         *)
(* Documents and properties are both rows, numbered in the order           *)
(* (application, key) in which SetProperties and DeleteProperties sort     *)
(* them.  A row is the number of its version, 0 when the row is absent;    *)
(* properties have no version and are 1 when present.                      *)
(***************************************************************************)
EXTENDS Naturals, Sequences, FiniteSets

CONSTANTS
    Tx,         \* transactions in flight at once, over all replicas
    Owner,      \* subs of the "user" table
    Doc,        \* document rows
    Prop,       \* property rows
    OwnerOf,    \* the owner column of each row
    Counter,    \* the "eventlog" row of sequence_counter
    MaxRepeat,  \* how often one request may name the same property (bound)
    MaxId       \* last eventlog id the model hands out (bound)

Row == Doc \cup Prop

ASSUME RowAssumption     == /\ Row \subseteq Nat
                            /\ Doc \cap Prop = {}
                            /\ IsFiniteSet(Row)
ASSUME OwnerAssumption   == OwnerOf \in [Row -> Owner]
ASSUME LockAssumption    == /\ Owner \cap Row = {}
                            /\ Counter \notin Owner \cup Row
ASSUME BoundAssumption   == MaxRepeat \in Nat /\ MaxId \in Nat

VARIABLES
    users,    \* committed rows of "user"
    rows,     \* committed rows of document and property
    counter,  \* committed value of the sequence_counter row
    log,      \* committed rows of eventlog
    pc,       \* the next statement of each transaction
    op,       \* the store method it runs
    sub,      \* the "user" row it has still to upsert, if any
    todo,     \* how often each row is still to be written
    held,     \* the row locks it holds
    pending,  \* its own version of the rows it has locked
    ev,       \* the events it will log, in order
    base      \* the counter it read when it reserved its ids

tables == <<users, rows, counter, log>>
txVars == <<pc, op, sub, todo, held, pending, ev, base>>
vars   == <<tables, txVars>>

Lock     == Owner \cup Row \cup {Counter}
Upserts  == {"UpdateDocument", "SetProperties"}
Op       == Upserts \cup {"DeleteDocument", "DeleteProperties"}
Event    == [row : Row, type : {"update", "delete"}, version : Nat]
Entry    == [id : Nat, row : Row, type : {"update", "delete"}, version : Nat]

\* Type correctness of the tables and of every transaction's private state.
TypeOK ==
    /\ users \subseteq Owner
    /\ rows \in [Row -> Nat]
    /\ counter \in Nat
    /\ log \subseteq Entry
    /\ pc \in [Tx -> {"idle", "user", "rows", "commit"}]
    /\ op \in [Tx -> Op \cup {"none"}]
    /\ sub \in [Tx -> SUBSET Owner]
    /\ todo \in [Tx -> [Row -> Nat]]
    /\ held \in [Tx -> SUBSET Lock]
    /\ pending \in [Tx -> [Row -> Nat]]
    /\ ev \in [Tx -> Seq(Event)]
    /\ base \in [Tx -> Nat]

-----------------------------------------------------------------------------
(* Helpers *)

NoRows == [k \in Row |-> 0]

DocsOf(o)  == {k \in Doc  : OwnerOf[k] = o}
PropsOf(o) == {k \in Prop : OwnerOf[k] = o}

\* No other transaction holds lock l.
Free(t, l) == \A u \in Tx \ {t} : l \notin held[u]

\* The rows t has still to write.
Left(t) == {k \in Row : todo[t][k] > 0}

UnsortedRows(t) == Left(t)
\* The row t writes next: requests are sorted by (application, key).
NextRows(t) == {k \in Left(t) : \A j \in Left(t) : k <= j}

\* A row as t sees it: its own version once it has locked the row.
Current(t, k) == IF k \in held[t] THEN pending[t][k] ELSE rows[k]

\* The version an upsert leaves behind.
NextVersion(t, k) == IF k \in Doc THEN Current(t, k) + 1 ELSE 1

\* The eventlog id of the i-th event of t.
EntryIdFromOld(t, i) == base[t] + i - 1
EntryIdFromEnd(t, i) == base[t] - Len(ev[t]) + i
EntryId(t, i) == base[t] + i

EntriesOf(t) ==
    {[id |-> EntryId(t, i), row |-> ev[t][i].row, type |-> ev[t][i].type,
      version |-> ev[t][i].version] : i \in 1..Len(ev[t])}

-----------------------------------------------------------------------------
(* Transactions *)

\* pg.WithTX opens a transaction for a store call.
Begin(t, o, c, req) ==
    /\ pc[t] = "idle"
    /\ pc' = [pc EXCEPT ![t] = IF c \in Upserts THEN "user" ELSE "rows"]
    /\ op' = [op EXCEPT ![t] = c]
    /\ sub' = [sub EXCEPT ![t] = IF c \in Upserts THEN {o} ELSE {}]
    /\ todo' = [todo EXCEPT ![t] = req]
    /\ UNCHANGED <<tables, held, pending, ev, base>>

OneRow(k)   == [j \in Row |-> IF j = k THEN 1 ELSE 0]
Request(rq) == [j \in Row |-> IF j \in DOMAIN rq THEN rq[j] ELSE 0]

UpdateDocument(t) == \E o \in Owner : \E k \in DocsOf(o) :
    Begin(t, o, "UpdateDocument", OneRow(k))

DeleteDocument(t) == \E o \in Owner : \E k \in DocsOf(o) :
    Begin(t, o, "DeleteDocument", OneRow(k))

SetProperties(t) == \E o \in Owner : \E rq \in [PropsOf(o) -> 0..MaxRepeat] :
    Begin(t, o, "SetProperties", Request(rq))

DeleteProperties(t) == \E o \in Owner : \E rq \in [PropsOf(o) -> 0..MaxRepeat] :
    Begin(t, o, "DeleteProperties", Request(rq))

UpsertUserNotWaiting(t) ==
    /\ pc[t] = "user"
    /\ \E o \in sub[t] :
          held' = [held EXCEPT ![t] = @ \cup
                     IF o \notin users /\ Free(t, o) THEN {o} ELSE {}]
    /\ sub' = [sub EXCEPT ![t] = {}]
    /\ pc' = [pc EXCEPT ![t] = "rows"]
    /\ UNCHANGED <<tables, op, todo, pending, ev, base>>

\* INSERT INTO "user" ... ON CONFLICT DO NOTHING: locks the row only when it
\* creates it, and waits for another transaction that is creating it.
UpsertUser(t) ==
    /\ pc[t] = "user"
    /\ \E o \in sub[t] :
          \/ o \in users /\ UNCHANGED held
          \/ /\ o \notin users
             /\ Free(t, o)
             /\ held' = [held EXCEPT ![t] = @ \cup {o}]
    /\ sub' = [sub EXCEPT ![t] = {}]
    /\ pc' = [pc EXCEPT ![t] = "rows"]
    /\ UNCHANGED <<tables, op, todo, pending, ev, base>>

\* Row k of t becomes v, with an event for it.
Write(t, k, v, type) ==
    /\ held' = [held EXCEPT ![t] = @ \cup {k}]
    /\ pending' = [pending EXCEPT ![t][k] = v]
    /\ todo' = [todo EXCEPT ![t][k] = @ - 1]
    /\ ev' = [ev EXCEPT ![t] = Append(@,
                [row |-> k, type |-> type,
                 version |-> IF type = "update" /\ k \in Doc THEN v ELSE 0])]
    /\ UNCHANGED <<tables, pc, op, sub, base>>

UpsertUnlocked(t) ==
    /\ pc[t] = "rows" /\ op[t] \in Upserts
    /\ \E k \in NextRows(t) : Write(t, k, NextVersion(t, k), "update")

\* INSERT ... ON CONFLICT DO UPDATE on the next row of the request.
UpsertRow(t) ==
    /\ pc[t] = "rows" /\ op[t] \in Upserts
    /\ \E k \in NextRows(t) : /\ Free(t, k)
                              /\ Write(t, k, NextVersion(t, k), "update")

DeleteSilently(t) ==
    /\ pc[t] = "rows" /\ op[t] \notin Upserts
    /\ \E k \in NextRows(t) :
          /\ Free(t, k)
          /\ held' = [held EXCEPT ![t] = @ \cup {k}]
          /\ pending' = [pending EXCEPT ![t][k] = 0]
          /\ todo' = [todo EXCEPT ![t][k] = @ - 1]
          /\ UNCHANGED <<tables, pc, op, sub, ev, base>>

\* DELETE ... RETURNING 1 on the next row.  A row the statement does not see
\* gives ErrNoRows: nothing is locked and no event is recorded for it.
DeleteRow(t) ==
    /\ pc[t] = "rows" /\ op[t] \notin Upserts
    /\ \E k \in NextRows(t) :
          \/ /\ Current(t, k) > 0
             /\ Free(t, k)
             /\ Write(t, k, 0, "delete")
          \/ /\ Current(t, k) = 0
             /\ todo' = [todo EXCEPT ![t][k] = @ - 1]
             /\ UNCHANGED <<tables, pc, op, sub, held, pending, ev, base>>

ReserveEarly(t) ==
    /\ pc[t] = "rows" /\ ev[t] = <<>> /\ Left(t) # {}
    /\ Counter \notin held[t] /\ Free(t, Counter)
    /\ held' = [held EXCEPT ![t] = @ \cup {Counter}]
    /\ base' = [base EXCEPT ![t] = counter]
    /\ UNCHANGED <<tables, pc, op, sub, todo, pending, ev>>

\* What an identity column or a sequence does: ids are drawn at once, without
\* a lock that outlives the statement.
ReserveIdentity(t) ==
    /\ pc[t] = "rows" /\ Left(t) = {} /\ ev[t] # <<>>
    /\ counter + Len(ev[t]) <= MaxId
    /\ base' = [base EXCEPT ![t] = counter]
    /\ counter' = counter + Len(ev[t])
    /\ pc' = [pc EXCEPT ![t] = "commit"]
    /\ UNCHANGED <<users, rows, log, op, sub, todo, held, pending, ev>>

\* logAndNotifyAll: ReserveSequenceValues row-locks the counter for the rest
\* of the transaction and the events take the ids it reserved.
Reserve(t) ==
    /\ pc[t] = "rows" /\ Left(t) = {} /\ ev[t] # <<>>
    /\ Free(t, Counter)
    /\ counter + Len(ev[t]) <= MaxId
    /\ held' = [held EXCEPT ![t] = @ \cup {Counter}]
    /\ base' = [base EXCEPT ![t] = counter]
    /\ pc' = [pc EXCEPT ![t] = "commit"]
    /\ UNCHANGED <<tables, op, sub, todo, pending, ev>>

\* logAndNotifyAll returns early when there is nothing to log.
NothingToLog(t) ==
    /\ pc[t] = "rows" /\ Left(t) = {} /\ ev[t] = <<>>
    /\ pc' = [pc EXCEPT ![t] = "commit"]
    /\ UNCHANGED <<tables, op, sub, todo, held, pending, ev, base>>

\* The transaction is over and its locks are released.
End(t) ==
    /\ pc' = [pc EXCEPT ![t] = "idle"]
    /\ todo' = [todo EXCEPT ![t] = NoRows]
    /\ held' = [held EXCEPT ![t] = {}]
    /\ pending' = [pending EXCEPT ![t] = NoRows]
    /\ ev' = [ev EXCEPT ![t] = <<>>]
    /\ base' = [base EXCEPT ![t] = 0]
    /\ op' = [op EXCEPT ![t] = "none"]
    /\ sub' = [sub EXCEPT ![t] = {}]

\* Everything the transaction wrote becomes visible at once.
Commit(t) ==
    /\ pc[t] = "commit"
    /\ users' = users \cup (held[t] \cap Owner)
    /\ rows' = [k \in Row |-> Current(t, k)]
    /\ counter' = IF Counter \in held[t] THEN base[t] + Len(ev[t]) ELSE counter
    /\ log' = log \cup EntriesOf(t)
    /\ End(t)

\* The transaction is rolled back, wherever it was.
Abort(t) ==
    /\ pc[t] # "idle"
    /\ End(t)
    /\ UNCHANGED tables

-----------------------------------------------------------------------------
Init ==
    /\ users = {} /\ rows = NoRows /\ counter = 0 /\ log = {}
    /\ pc = [t \in Tx |-> "idle"]
    /\ op = [t \in Tx |-> "none"]
    /\ sub = [t \in Tx |-> {}]
    /\ todo = [t \in Tx |-> NoRows]
    /\ held = [t \in Tx |-> {}]
    /\ pending = [t \in Tx |-> NoRows]
    /\ ev = [t \in Tx |-> <<>>]
    /\ base = [t \in Tx |-> 0]

\* Every step of t but the commit: nothing another process could read, except
\* through the locks t takes.
Statement(t) ==
    \/ UpdateDocument(t) \/ DeleteDocument(t)
    \/ SetProperties(t) \/ DeleteProperties(t)
    \/ UpsertUser(t) \/ UpsertRow(t) \/ DeleteRow(t)
    \/ Reserve(t) \/ NothingToLog(t)
    \/ Abort(t)

Next == \E t \in Tx : Statement(t) \/ Commit(t)

Spec == Init /\ [][Next]_vars

-----------------------------------------------------------------------------
(* Properties *)

\* The eventlog has an entry for every id up to the counter and never two for
\* one: a rolled back write gives its ids back, concurrent writers never draw
\* the same (ReserveSequenceValues under its row lock).
GaplessLog ==
    /\ {e.id : e \in log} = 1..counter
    /\ \A e, f \in log : e.id = f.id => e = f

\* Ids become visible in id order: nothing is ever inserted at or below an id
\* that a reader of "id > after_id" may already have passed, and no entry is
\* changed or removed (the promise of the comment on logAndNotifyAll).
CommitOrdered ==
    [][/\ log \subseteq log'
       /\ \A e \in log' \ log, f \in log : f.id < e.id]_vars

\* The log and the tables never disagree: the last entry for a row tells
\* whether the row exists and, for a document, its version.
LogExplainsRows ==
    \A k \in Row :
        LET mine == {e \in log : e.row = k}
        IN  /\ mine = {} => rows[k] = 0
            /\ \A e \in mine : (\A f \in mine : f.id <= e.id) =>
                  /\ (rows[k] = 0) <=> (e.type = "delete")
                  /\ (k \in Doc /\ e.type = "update") => (e.version = rows[k])

\* A row outlives neither its owner's "user" row nor a rollback of the
\* transaction that created it (the owner foreign keys never fail).
OwnersExist == \A k \in Row : rows[k] > 0 => OwnerOf[k] \in users

\* The locks the next statement of t needs and does not have.
Wanted(t) ==
    {o \in sub[t] \ users : pc[t] = "user"}
    \cup {k \in NextRows(t) \ held[t] :
            /\ pc[t] = "rows"
            /\ op[t] \in Upserts \/ rows[k] > 0}
    \cup {l \in {Counter} \ held[t] :
            pc[t] = "rows" /\ Left(t) = {} /\ ev[t] # <<>>}

WaitsFor(t, u) == t # u /\ Wanted(t) \cap held[u] # {}

\* Transactions with overlapping keys never wait for each other in a ring,
\* which PostgreSQL would break by failing one of the requests (the comments
\* on the sort in SetProperties and on logAndNotifyAll).
NoDeadlock ==
    \A S \in SUBSET Tx : S # {} => \E t \in S : \A u \in S : ~WaitsFor(t, u)

\* The lock order behind NoDeadlock: users, then rows in key order, then the
\* counter.
Before(l, m) ==
    \/ l \in Owner /\ m \in Row \cup {Counter}
    \/ l \in Row /\ m \in Row /\ l < m
    \/ l \in Row /\ m = Counter

LockOrder == \A t \in Tx : \A l \in held[t], m \in Wanted(t) : Before(l, m)

-----------------------------------------------------------------------------
(* Inductive invariants *)

\* A row lock has one holder.
LocksExclusive == \A t, u \in Tx : t # u => held[t] \cap held[u] = {}

\* Whoever holds the counter has read its committed value, and only a
\* transaction about to commit holds it; the others have nothing to log then.
CounterFresh == \A t \in Tx :
    /\ Counter \in held[t] => pc[t] = "commit" /\ base[t] = counter
    /\ pc[t] = "commit" /\ Counter \notin held[t] => ev[t] = <<>>

\* What makes GaplessLog inductive.
LogInv == TypeOK /\ LocksExclusive /\ CounterFresh /\ GaplessLog

\* Locks are taken in order: none before the user row, then rows upwards, the
\* counter only when no row is left.
LocksInOrder == \A t \in Tx :
    /\ pc[t] \in {"idle", "user"} => held[t] = {}
    /\ pc[t] = "rows" => /\ Counter \notin held[t]
                         /\ \A k \in held[t] \cap Row, j \in Left(t) : k <= j

\* What makes LockOrder inductive.
LockInv == TypeOK /\ LocksInOrder
=============================================================================
