------------------------- MODULE SettingsStoreProofs -------------------------
(***************************************************************************)
(* Proofs about SettingsStore, for every set of transactions, rows and     *)
(* owners: types, the order and the completeness of the eventlog, locks    *)
(* without deadlock, owners, and the refinement of SettingsLog.            *)
(***************************************************************************)
EXTENDS SettingsStoreRefinement, FiniteSetTheorems, WellFoundedInduction, TLAPS

-----------------------------------------------------------------------------
(* Type correctness *)

LEMMA NoRowsType == NoRows \in [Row -> Nat]
  BY DEF NoRows

LEMMA CurrentType ==
  ASSUME TypeOK, NEW t \in Tx, NEW k \in Row
  PROVE  Current(t, k) \in Nat
  BY DEF TypeOK, Current

LEMMA NextRowsType ==
  ASSUME NEW t \in Tx
  PROVE  NextRows(t) \subseteq Row
  BY DEF NextRows, Left

LEMMA EntriesType ==
  ASSUME TypeOK, NEW t \in Tx
  PROVE  EntriesOf(t) \subseteq Entry
<1> SUFFICES ASSUME NEW i \in 1..Len(ev[t])
             PROVE  [id |-> EntryId(t, i), row |-> ev[t][i].row,
                     type |-> ev[t][i].type, version |-> ev[t][i].version] \in Entry
  BY DEF EntriesOf
<1>1. ev[t] \in Seq(Event) /\ base[t] \in Nat
  BY DEF TypeOK
<1>2. ev[t][i] \in Event
  BY <1>1
<1>3. EntryId(t, i) \in Nat
  BY <1>1 DEF EntryId
<1> QED
  BY <1>2, <1>3 DEF Entry, Event

LEMMA BeginType ==
  ASSUME TypeOK, NEW t \in Tx, NEW o \in Owner, NEW c \in Op,
         NEW req \in [Row -> Nat], Begin(t, o, c, req)
  PROVE  TypeOK'
  BY DEF TypeOK, Begin, tables

LEMMA OneRowType ==
  ASSUME NEW k
  PROVE  OneRow(k) \in [Row -> Nat]
  BY DEF OneRow

LEMMA RequestType ==
  ASSUME NEW o, NEW rq \in [PropsOf(o) -> 0..MaxRepeat]
  PROVE  Request(rq) \in [Row -> Nat]
  BY BoundAssumption DEF Request

LEMMA EndType ==
  ASSUME TypeOK, NEW t \in Tx, End(t)
  PROVE  /\ pc' \in [Tx -> {"idle", "user", "rows", "commit"}]
         /\ op' \in [Tx -> Op \cup {"none"}]
         /\ sub' \in [Tx -> SUBSET Owner]
         /\ todo' \in [Tx -> [Row -> Nat]]
         /\ held' \in [Tx -> SUBSET Lock]
         /\ pending' \in [Tx -> [Row -> Nat]]
         /\ ev' \in [Tx -> Seq(Event)]
         /\ base' \in [Tx -> Nat]
  BY NoRowsType DEF TypeOK, End

LEMMA WriteType ==
  ASSUME TypeOK, NEW t \in Tx, NEW k \in Left(t), NEW v \in Nat,
         NEW type \in {"update", "delete"}, Write(t, k, v, type)
  PROVE  TypeOK'
<1>1. k \in Row /\ todo[t][k] \in Nat /\ todo[t][k] > 0
  BY DEF Left, TypeOK
<1>2. todo[t][k] - 1 \in Nat
  BY <1>1
<1>3. todo' \in [Tx -> [Row -> Nat]]
  BY <1>1, <1>2 DEF TypeOK, Write
<1>4. held' \in [Tx -> SUBSET Lock]
  BY <1>1 DEF TypeOK, Write, Lock
<1>5. pending' \in [Tx -> [Row -> Nat]]
  BY <1>1 DEF TypeOK, Write
<1>6. ev' \in [Tx -> Seq(Event)]
  <2>1. [row |-> k, type |-> type,
         version |-> IF type = "update" /\ k \in Doc THEN v ELSE 0] \in Event
    BY <1>1 DEF Event
  <2>2. Append(ev[t], [row |-> k, type |-> type,
          version |-> IF type = "update" /\ k \in Doc THEN v ELSE 0]) \in Seq(Event)
    BY <2>1 DEF TypeOK
  <2> QED
    BY <2>2 DEF TypeOK, Write
<1> QED
  BY <1>3, <1>4, <1>5, <1>6 DEF TypeOK, Write, tables

LEMMA TypeInit == Init => TypeOK
  BY NoRowsType DEF Init, TypeOK

LEMMA TypeNext == TypeOK /\ [Next]_vars => TypeOK'
<1> SUFFICES ASSUME TypeOK, [Next]_vars PROVE TypeOK'
  OBVIOUS
<1>1. ASSUME NEW t \in Tx, UpdateDocument(t) PROVE TypeOK'
  BY <1>1, BeginType, OneRowType DEF UpdateDocument, Op, Upserts
<1>2. ASSUME NEW t \in Tx, DeleteDocument(t) PROVE TypeOK'
  BY <1>2, BeginType, OneRowType DEF DeleteDocument, Op, Upserts
<1>3. ASSUME NEW t \in Tx, SetProperties(t) PROVE TypeOK'
  BY <1>3, BeginType, RequestType DEF SetProperties, Op, Upserts
<1>4. ASSUME NEW t \in Tx, DeleteProperties(t) PROVE TypeOK'
  BY <1>4, BeginType, RequestType DEF DeleteProperties, Op, Upserts
<1>5. ASSUME NEW t \in Tx, UpsertUser(t) PROVE TypeOK'
  <2>1. PICK o \in sub[t] : \/ UNCHANGED held
                            \/ held' = [held EXCEPT ![t] = @ \cup {o}]
    BY <1>5 DEF UpsertUser
  <2>2. held \in [Tx -> SUBSET Lock] /\ held[t] \cup {o} \in SUBSET Lock
    BY DEF TypeOK, Lock
  <2>3. held' \in [Tx -> SUBSET Lock]
    BY <2>1, <2>2
  <2>4. /\ sub' = [sub EXCEPT ![t] = {}]
        /\ pc' = [pc EXCEPT ![t] = "rows"]
        /\ UNCHANGED <<users, rows, counter, log, op, todo, pending, ev, base>>
    BY <1>5 DEF UpsertUser, tables
  <2> QED
    BY <2>3, <2>4 DEF TypeOK
<1>6. ASSUME NEW t \in Tx, UpsertRow(t) PROVE TypeOK'
  <2>1. PICK k \in NextRows(t) : Write(t, k, NextVersion(t, k), "update")
    BY <1>6 DEF UpsertRow
  <2>2. k \in Left(t) /\ k \in Row
    BY DEF NextRows, Left
  <2>3. NextVersion(t, k) \in Nat
    BY <2>2, CurrentType DEF NextVersion
  <2> QED
    BY <2>1, <2>2, <2>3, WriteType
<1>7. ASSUME NEW t \in Tx, DeleteRow(t) PROVE TypeOK'
  <2>1. PICK k \in NextRows(t) :
          \/ Write(t, k, 0, "delete")
          \/ /\ todo' = [todo EXCEPT ![t][k] = @ - 1]
             /\ UNCHANGED <<tables, pc, op, sub, held, pending, ev, base>>
    BY <1>7 DEF DeleteRow
  <2>2. k \in Left(t) /\ k \in Row /\ todo[t][k] \in Nat /\ todo[t][k] > 0
    BY DEF NextRows, Left, TypeOK
  <2>3. CASE Write(t, k, 0, "delete")
    BY <2>2, <2>3, WriteType
  <2>4. CASE /\ todo' = [todo EXCEPT ![t][k] = @ - 1]
             /\ UNCHANGED <<tables, pc, op, sub, held, pending, ev, base>>
    <3>1. todo[t][k] - 1 \in Nat
      BY <2>2
    <3> QED
      BY <2>2, <2>4, <3>1 DEF TypeOK, tables
  <2> QED
    BY <2>1, <2>3, <2>4
<1>8. ASSUME NEW t \in Tx, Reserve(t) PROVE TypeOK'
  BY <1>8 DEF TypeOK, Reserve, tables, Lock
<1>9. ASSUME NEW t \in Tx, NothingToLog(t) PROVE TypeOK'
  BY <1>9 DEF TypeOK, NothingToLog, tables
<1>10. ASSUME NEW t \in Tx, Commit(t) PROVE TypeOK'
  <2>1. End(t)
    BY <1>10 DEF Commit
  <2>2. users' \subseteq Owner
    BY <1>10 DEF Commit, TypeOK
  <2>3. rows' \in [Row -> Nat]
    BY <1>10, CurrentType DEF Commit
  <2>4. counter' \in Nat
    <3>1. ev[t] \in Seq(Event) /\ base[t] \in Nat /\ counter \in Nat
      BY DEF TypeOK
    <3> QED
      BY <3>1, <1>10 DEF Commit
  <2>5. log' \subseteq Entry
    BY <1>10, EntriesType DEF Commit, TypeOK
  <2> QED
    BY <2>1, <2>2, <2>3, <2>4, <2>5, EndType DEF TypeOK
<1>11. ASSUME NEW t \in Tx, Abort(t) PROVE TypeOK'
  BY <1>11, EndType DEF Abort, TypeOK, tables
<1>12. ASSUME UNCHANGED vars PROVE TypeOK'
  BY <1>12 DEF TypeOK, vars, tables, txVars
<1> QED
  BY <1>1, <1>2, <1>3, <1>4, <1>5, <1>6, <1>7, <1>8, <1>9, <1>10, <1>11, <1>12
     DEF Next, Statement

\* Every reachable state of every instance is well typed.
THEOREM TypeCorrect == Spec => []TypeOK
<1>1. Init => TypeOK
  BY TypeInit
<1>2. TypeOK /\ [Next]_vars => TypeOK'
  BY TypeNext
<1> QED
  BY <1>1, <1>2, PTL DEF Spec

-----------------------------------------------------------------------------
(* The eventlog is gapless and commit-ordered *)

LEMMA AcquireExclusive ==
  ASSUME TypeOK, LocksExclusive, NEW t \in Tx, NEW l, Free(t, l),
         held' = [held EXCEPT ![t] = @ \cup {l}]
  PROVE  LocksExclusive'
  BY DEF TypeOK, LocksExclusive, Free

LEMMA ReleaseExclusive ==
  ASSUME TypeOK, LocksExclusive, NEW t \in Tx,
         held' = [held EXCEPT ![t] = {}]
  PROVE  LocksExclusive'
  BY DEF TypeOK, LocksExclusive

\* The entries of a transaction that holds the counter continue the log.
LEMMA CommitContinuesLog ==
  ASSUME LogInv, NEW t \in Tx, Commit(t)
  PROVE  /\ GaplessLog'
         /\ counter' >= counter
         /\ log' = log \cup EntriesOf(t)
         /\ \A e \in EntriesOf(t) : e.id \in (counter + 1)..counter'
<1>1. ev[t] \in Seq(Event) /\ counter \in Nat /\ Len(ev[t]) \in Nat
  BY DEF LogInv, TypeOK
<1>2. \A e \in log : e.id \in 1..counter
  BY DEF LogInv, GaplessLog
<1>3. CASE Counter \in held[t]
  <2>1. base[t] = counter /\ counter' = counter + Len(ev[t])
    BY <1>3 DEF LogInv, CounterFresh, Commit
  <2>2. \A e \in EntriesOf(t) :
          \E i \in 1..Len(ev[t]) :
             e = [id |-> counter + i, row |-> ev[t][i].row,
                  type |-> ev[t][i].type, version |-> ev[t][i].version]
    BY <2>1 DEF EntriesOf, EntryId
  <2>3. \A e \in EntriesOf(t) : e.id \in (counter + 1)..counter'
    BY <1>1, <2>1, <2>2
  <2>4. log' = log \cup EntriesOf(t)
    BY DEF Commit
  <2>5. \A e, f \in log' : e.id = f.id => e = f
    <3> SUFFICES ASSUME NEW e \in log', NEW f \in log', e.id = f.id PROVE e = f
      OBVIOUS
    <3>1. CASE e \in log /\ f \in log
      BY <3>1 DEF LogInv, GaplessLog
    <3>2. CASE e \in EntriesOf(t) /\ f \in EntriesOf(t)
      <4>1. PICK i \in 1..Len(ev[t]) :
               e = [id |-> counter + i, row |-> ev[t][i].row,
                    type |-> ev[t][i].type, version |-> ev[t][i].version]
        BY <3>2, <2>2
      <4>2. PICK j \in 1..Len(ev[t]) :
               f = [id |-> counter + j, row |-> ev[t][j].row,
                    type |-> ev[t][j].type, version |-> ev[t][j].version]
        BY <3>2, <2>2
      <4>3. i = j
        BY <4>1, <4>2, <1>1
      <4> QED
        BY <4>1, <4>2, <4>3
    <3>3. CASE e \in log /\ f \in EntriesOf(t)
      BY <3>3, <1>1, <1>2, <2>1, <2>3
    <3>4. CASE e \in EntriesOf(t) /\ f \in log
      BY <3>4, <1>1, <1>2, <2>1, <2>3
    <3> QED
      BY <2>4, <3>1, <3>2, <3>3, <3>4
  <2>6. {e.id : e \in log'} = 1..counter'
    <3>1. {e.id : e \in log'} \subseteq 1..counter'
      BY <1>1, <1>2, <2>1, <2>3, <2>4
    <3>2. ASSUME NEW n \in 1..counter' PROVE \E e \in log' : e.id = n
      <4>1. CASE n \in 1..counter
        BY <4>1, <2>4 DEF LogInv, GaplessLog
      <4>2. CASE n \notin 1..counter
        <5> DEFINE i == n - counter
        <5>1. i \in 1..Len(ev[t]) /\ n = counter + i
          BY <4>2, <1>1, <2>1
        <5>2. [id |-> EntryId(t, i), row |-> ev[t][i].row,
               type |-> ev[t][i].type, version |-> ev[t][i].version] \in EntriesOf(t)
          BY <5>1 DEF EntriesOf
        <5>3. EntryId(t, i) = n
          BY <5>1, <2>1 DEF EntryId
        <5> QED
          BY <5>2, <5>3, <2>4
      <4> QED
        BY <4>1, <4>2
    <3> QED
      BY <3>1, <3>2
  <2> QED
    BY <1>1, <2>1, <2>3, <2>4, <2>5, <2>6 DEF GaplessLog
<1>4. CASE Counter \notin held[t]
  <2>1. ev[t] = <<>> /\ counter' = counter
    BY <1>4 DEF LogInv, CounterFresh, Commit
  <2>2. EntriesOf(t) = {}
    BY <2>1 DEF EntriesOf
  <2>3. log' = log
    BY <2>2 DEF Commit
  <2> QED
    BY <1>1, <2>1, <2>2, <2>3 DEF LogInv, GaplessLog
<1> QED
  BY <1>3, <1>4

LEMMA LogInvInit == Init => LogInv
<1> SUFFICES ASSUME Init PROVE LogInv
  OBVIOUS
<1>1. TypeOK
  BY TypeInit
<1>2. LocksExclusive /\ CounterFresh
  BY DEF Init, LocksExclusive, CounterFresh
<1>3. GaplessLog
  BY DEF Init, GaplessLog
<1> QED
  BY <1>1, <1>2, <1>3 DEF LogInv

LEMMA LogInvNext == LogInv /\ [Next]_vars => LogInv'
<1> SUFFICES ASSUME LogInv, [Next]_vars PROVE LogInv'
  OBVIOUS
<1> USE DEF LogInv
<1>0. TypeOK'
  BY TypeNext
<1>1. ASSUME NEW t \in Tx, NEW o, NEW c, NEW req, Begin(t, o, c, req)
      PROVE  LocksExclusive' /\ CounterFresh' /\ GaplessLog'
  <2>1. LocksExclusive'
    BY <1>1 DEF Begin, LocksExclusive
  <2>2. CounterFresh'
    BY <1>1 DEF Begin, CounterFresh, TypeOK, tables
  <2>3. GaplessLog'
    BY <1>1 DEF Begin, GaplessLog, tables
  <2> QED
    BY <2>1, <2>2, <2>3
<1>2. ASSUME NEW t \in Tx, UpsertUser(t)
      PROVE  LocksExclusive' /\ CounterFresh' /\ GaplessLog'
  <2>1. PICK o \in sub[t] :
          \/ UNCHANGED held
          \/ Free(t, o) /\ held' = [held EXCEPT ![t] = @ \cup {o}]
    BY <1>2 DEF UpsertUser
  <2>2. o # Counter
    BY LockAssumption DEF TypeOK
  <2>3. /\ pc[t] = "user" /\ pc' = [pc EXCEPT ![t] = "rows"]
        /\ UNCHANGED <<counter, log, ev, base>>
    BY <1>2 DEF UpsertUser, tables
  <2>4. LocksExclusive'
    <3>1. CASE UNCHANGED held
      BY <3>1 DEF LocksExclusive
    <3>2. CASE Free(t, o) /\ held' = [held EXCEPT ![t] = @ \cup {o}]
      BY <3>2, AcquireExclusive
    <3> QED
      BY <2>1, <3>1, <3>2
  <2>5. CounterFresh'
    <3>1. \A u \in Tx : (Counter \in held'[u]) <=> (Counter \in held[u])
      <4>1. CASE UNCHANGED held
        BY <4>1
      <4>2. CASE held' = [held EXCEPT ![t] = @ \cup {o}]
        BY <4>2, <2>2 DEF TypeOK
      <4> QED
        BY <2>1, <4>1, <4>2
    <3>2. pc'[t] = "rows" /\ Counter \notin held[t]
      BY <2>3 DEF CounterFresh, TypeOK
    <3>3. \A u \in Tx \ {t} : pc'[u] = pc[u]
      BY <2>3 DEF TypeOK
    <3> QED
      BY <2>3, <3>1, <3>2, <3>3 DEF CounterFresh
  <2>6. GaplessLog'
    BY <2>3 DEF GaplessLog
  <2> QED
    BY <2>4, <2>5, <2>6
<1>3. ASSUME NEW t \in Tx, pc[t] = "rows", NEW k \in NextRows(t), NEW v, NEW type,
             Free(t, k), Write(t, k, v, type)
      PROVE  LocksExclusive' /\ CounterFresh' /\ GaplessLog'
  <2>1. /\ held' = [held EXCEPT ![t] = @ \cup {k}]
        /\ \A u \in Tx \ {t} : ev'[u] = ev[u]
        /\ UNCHANGED <<counter, log, pc, base>>
    BY <1>3 DEF Write, tables, TypeOK
  <2>2. k # Counter
    BY LockAssumption, NextRowsType
  <2>3. \A u \in Tx : (Counter \in held'[u]) <=> (Counter \in held[u])
    BY <2>1, <2>2 DEF TypeOK
  <2>4. CounterFresh'
    BY <1>3, <2>1, <2>3 DEF CounterFresh
  <2>5. LocksExclusive'
    BY <1>3, <2>1, AcquireExclusive
  <2>6. GaplessLog'
    BY <2>1 DEF GaplessLog
  <2> QED
    BY <2>4, <2>5, <2>6
<1>4. ASSUME NEW t \in Tx, DeleteRow(t)
      PROVE  LocksExclusive' /\ CounterFresh' /\ GaplessLog'
  <2>1. PICK k \in NextRows(t) :
          \/ Free(t, k) /\ Write(t, k, 0, "delete")
          \/ UNCHANGED <<tables, pc, op, sub, held, pending, ev, base>>
    BY <1>4 DEF DeleteRow
  <2>2. CASE Free(t, k) /\ Write(t, k, 0, "delete")
    BY <1>4, <2>2, <1>3 DEF DeleteRow
  <2>3. CASE UNCHANGED <<tables, pc, op, sub, held, pending, ev, base>>
    BY <2>3 DEF LocksExclusive, CounterFresh, GaplessLog, tables
  <2> QED
    BY <2>1, <2>2, <2>3
<1>5. ASSUME NEW t \in Tx, Reserve(t)
      PROVE  LocksExclusive' /\ CounterFresh' /\ GaplessLog'
  <2>1. LocksExclusive'
    BY <1>5, AcquireExclusive DEF Reserve
  <2>2. \A u \in Tx \ {t} : Counter \notin held[u]
    BY <1>5 DEF Reserve, Free
  <2>3. CounterFresh'
    BY <1>5, <2>2 DEF Reserve, CounterFresh, TypeOK, tables
  <2>4. GaplessLog'
    BY <1>5 DEF Reserve, GaplessLog, tables
  <2> QED
    BY <2>1, <2>3, <2>4
<1>6. ASSUME NEW t \in Tx, NothingToLog(t)
      PROVE  LocksExclusive' /\ CounterFresh' /\ GaplessLog'
  BY <1>6 DEF NothingToLog, LocksExclusive, CounterFresh, GaplessLog, TypeOK, tables
<1>7. ASSUME NEW t \in Tx, Commit(t)
      PROVE  LocksExclusive' /\ CounterFresh' /\ GaplessLog'
  <2>1. LocksExclusive'
    BY <1>7, ReleaseExclusive DEF Commit, End
  <2>2. \A u \in Tx \ {t} : held'[u] = held[u] /\ pc'[u] = pc[u]
                             /\ base'[u] = base[u] /\ ev'[u] = ev[u]
    BY <1>7 DEF Commit, End, TypeOK
  <2>3. held'[t] = {} /\ pc'[t] = "idle"
    BY <1>7 DEF Commit, End, TypeOK
  <2>4. \A u \in Tx \ {t} : Counter \in held[u] => counter' = counter
    BY <1>7 DEF Commit, LocksExclusive
  <2>5. CounterFresh'
    BY <2>2, <2>3, <2>4 DEF CounterFresh
  <2> QED
    BY <2>1, <2>5, <1>7, CommitContinuesLog
<1>8. ASSUME NEW t \in Tx, Abort(t)
      PROVE  LocksExclusive' /\ CounterFresh' /\ GaplessLog'
  <2>1. LocksExclusive'
    BY <1>8, ReleaseExclusive DEF Abort, End
  <2>2. CounterFresh'
    BY <1>8 DEF Abort, End, CounterFresh, TypeOK, tables
  <2>3. GaplessLog'
    BY <1>8 DEF Abort, GaplessLog, tables
  <2> QED
    BY <2>1, <2>2, <2>3
<1>9. CASE UNCHANGED vars
  <2>1. UNCHANGED <<counter, log, held, pc, base, ev>>
    BY <1>9 DEF vars, tables, txVars
  <2>2. LocksExclusive'
    BY <2>1 DEF LocksExclusive
  <2>3. CounterFresh'
    BY <2>1 DEF CounterFresh
  <2>4. GaplessLog'
    BY <2>1 DEF GaplessLog
  <2> QED
    BY <1>0, <2>2, <2>3, <2>4
<1>10. CASE Next
  <2>1. PICK t \in Tx : Statement(t) \/ Commit(t)
    BY <1>10 DEF Next
  <2>2. CASE \/ UpdateDocument(t) \/ DeleteDocument(t)
             \/ SetProperties(t) \/ DeleteProperties(t)
    BY <1>0, <1>1, <2>2
       DEF UpdateDocument, DeleteDocument, SetProperties, DeleteProperties
  <2>3. CASE UpsertRow(t)
    BY <1>0, <1>3, <2>3 DEF UpsertRow
  <2> QED
    BY <1>0, <1>2, <1>4, <1>5, <1>6, <1>7, <1>8, <2>1, <2>2, <2>3 DEF Statement
<1> QED
  BY <1>9, <1>10, <1>0

THEOREM LogInvariant == Spec => []LogInv
<1>1. Init => LogInv
  BY LogInvInit
<1>2. LogInv /\ [Next]_vars => LogInv'
  BY LogInvNext
<1> QED
  BY <1>1, <1>2, PTL DEF Spec

\* Eventlog ids have no gaps and no duplicates, whoever writes and whatever is
\* rolled back.
THEOREM LogIsGapless == Spec => []GaplessLog
<1>1. LogInv => GaplessLog
  BY DEF LogInv
<1> QED
  BY <1>1, LogInvariant, PTL

\* Eventlog ids become visible in id order.
THEOREM LogIsCommitOrdered == Spec => CommitOrdered
<1> DEFINE Ordered == /\ log \subseteq log'
                      /\ \A e \in log' \ log, f \in log : f.id < e.id
<1>1. LogInv /\ [Next]_vars => [Ordered]_vars
  <2> SUFFICES ASSUME LogInv, Next PROVE Ordered \/ UNCHANGED vars
    OBVIOUS
  <2>1. ASSUME NEW t \in Tx, Commit(t) PROVE Ordered
    <3>1. /\ log' = log \cup EntriesOf(t)
          /\ \A e \in EntriesOf(t) : e.id \in (counter + 1)..counter'
      BY <2>1, CommitContinuesLog
    <3>2. counter \in Nat /\ \A f \in log : f.id \in 1..counter
      BY DEF LogInv, TypeOK, GaplessLog
    <3> QED
      BY <3>1, <3>2
  <2>2. ASSUME NEW t \in Tx, Statement(t) PROVE log' = log
    BY <2>2 DEF Statement, UpdateDocument, DeleteDocument, SetProperties,
       DeleteProperties, Begin, UpsertUser, UpsertRow, DeleteRow, Write, Reserve,
       NothingToLog, Abort, tables
  <2> QED
    BY <2>1, <2>2 DEF Next
<1> QED
  BY <1>1, LogInvariant, PTL DEF Spec, CommitOrdered

-----------------------------------------------------------------------------
(* Finite sets of numbers *)

\* A finite set of numbers that has, for each of its members, a larger one is
\* empty: the sets of larger members would get smaller for ever.
LEMMA NoEndlessClimb ==
  ASSUME NEW W \in SUBSET Nat, IsFiniteSet(W),
         \A x \in W : \E y \in W : x < y
  PROVE  W = {}
<1> SUFFICES ASSUME W # {} PROVE FALSE
  OBVIOUS
<1> DEFINE Above(x) == {y \in W : x < y}
           T == {Above(x) : x \in W}
           R == StrictSubsetOrdering(W)
<1>1. T \subseteq FiniteSubsetsOf(W) /\ T # {}
  <2>1. T \subseteq SUBSET W /\ T # {}
    OBVIOUS
  <2>2. FiniteSubsetsOf(W) = SUBSET W
    BY FS_FiniteSubsetsOfFinite
  <2> QED
    BY <2>1, <2>2
<1>2. PICK a \in T : \A b \in T : ~(<<b, a>> \in R)
  <2> HIDE DEF T, R
  <2>1. IsWellFoundedOn(R, FiniteSubsetsOf(W))
    BY FS_StrictSubsetOrderingWellFounded DEF R
  <2> QED
    BY <1>1, <2>1, WFMin
<1>3. PICK x \in W : a = Above(x)
  BY <1>2
<1>4. PICK y \in W : x < y
  OBVIOUS
<1>5. Above(y) \in T /\ Above(y) \subseteq a
  <2>1. Above(y) \in T
    OBVIOUS
  <2>2. \A z \in W : y < z => x < z
    BY <1>4
  <2> QED
    BY <1>3, <2>1, <2>2
<1>6. y \in a /\ y \notin Above(y)
  BY <1>3, <1>4
<1>7. <<Above(y), a>> \in R
  BY <1>3, <1>5, <1>6 DEF StrictSubsetOrdering
<1> QED
  BY <1>2, <1>5, <1>7

-----------------------------------------------------------------------------
(* Locks are taken in order *)

\* A step of t that moves no lock but adds l, and leaves no new row to write.
LEMMA RowsStayInOrder ==
  ASSUME TypeOK, LocksInOrder, NEW t \in Tx, pc[t] = "rows",
         UNCHANGED pc,
         NEW k \in NextRows(t),
         todo' = [todo EXCEPT ![t][k] = @ - 1],
         held' = held \/ held' = [held EXCEPT ![t] = @ \cup {k}]
  PROVE  LocksInOrder'
<1>1. k \in Row /\ todo[t][k] > 0 /\ \A j \in Left(t) : k <= j
  BY DEF NextRows, Left
<1>2. \A u \in Tx \ {t} : todo'[u] = todo[u] /\ held'[u] = held[u]
  <2>1. CASE held' = held
    BY <2>1 DEF TypeOK
  <2>2. CASE held' = [held EXCEPT ![t] = @ \cup {k}]
    BY <2>2 DEF TypeOK
  <2> QED
    BY <2>1, <2>2
<1>3. held'[t] \subseteq held[t] \cup {k}
  BY DEF TypeOK
<1>4. Left(t)' \subseteq Left(t)
  BY <1>1 DEF Left, TypeOK
<1>5. \A l \in held'[t] \cap Row, j \in Left(t)' : l <= j
  BY <1>1, <1>3, <1>4 DEF LocksInOrder
<1>6. Counter \notin held'[t]
  BY <1>1, <1>3, LockAssumption DEF LocksInOrder
<1>7. \A u \in Tx \ {t} : Left(u)' = Left(u)
  BY <1>2 DEF Left
<1> QED
  BY <1>2, <1>5, <1>6, <1>7 DEF LocksInOrder

\* A transaction that is over holds no lock.
LEMMA EndInOrder ==
  ASSUME TypeOK, LocksInOrder, NEW t \in Tx, End(t)
  PROVE  LocksInOrder'
<1>1. \A u \in Tx \ {t} : todo'[u] = todo[u] /\ held'[u] = held[u] /\ pc'[u] = pc[u]
  BY DEF End, TypeOK
<1>2. held'[t] = {}
  BY DEF End, TypeOK
<1>3. \A u \in Tx \ {t} : Left(u)' = Left(u)
  BY <1>1 DEF Left
<1> QED
  BY <1>1, <1>2, <1>3 DEF LocksInOrder

LEMMA LockInvInit == Init => LockInv
  BY TypeInit DEF Init, LockInv, LocksInOrder

LEMMA LockInvNext == LockInv /\ [Next]_vars => LockInv'
<1> SUFFICES ASSUME LockInv, [Next]_vars PROVE LocksInOrder'
  BY TypeNext DEF LockInv
<1> USE DEF LockInv
<1>1. ASSUME NEW t \in Tx, NEW o, NEW c, NEW req, Begin(t, o, c, req)
      PROVE  LocksInOrder'
  <2>1. /\ \A u \in Tx \ {t} : todo'[u] = todo[u] /\ pc'[u] = pc[u]
        /\ held' = held /\ held[t] = {}
    BY <1>1 DEF Begin, TypeOK, LocksInOrder
  <2>2. \A u \in Tx \ {t} : Left(u)' = Left(u)
    BY <2>1 DEF Left
  <2> QED
    BY <2>1, <2>2 DEF LocksInOrder
<1>2. ASSUME NEW t \in Tx, UpsertUser(t)
      PROVE  LocksInOrder'
  <2>1. /\ todo' = todo /\ held[t] = {}
        /\ \A u \in Tx \ {t} : held'[u] = held[u] /\ pc'[u] = pc[u]
        /\ pc'[t] = "rows" /\ held'[t] \subseteq Owner
    <3>1. PICK o \in sub[t] :
            held' = held \/ held' = [held EXCEPT ![t] = @ \cup {o}]
      BY <1>2 DEF UpsertUser
    <3>2. o \in Owner
      BY DEF TypeOK
    <3>3. pc[t] = "user" /\ todo' = todo /\ pc' = [pc EXCEPT ![t] = "rows"]
      BY <1>2 DEF UpsertUser
    <3>4. held[t] = {}
      BY <3>3 DEF LocksInOrder
    <3>5. held'[t] \subseteq Owner /\ \A u \in Tx \ {t} : held'[u] = held[u]
      <4>1. CASE held' = held
        BY <3>4, <4>1
      <4>2. CASE held' = [held EXCEPT ![t] = @ \cup {o}]
        BY <3>2, <3>4, <4>2 DEF TypeOK
      <4> QED
        BY <3>1, <4>1, <4>2
    <3> QED
      BY <3>3, <3>4, <3>5 DEF TypeOK
  <2>2. \A u \in Tx : Left(u)' = Left(u)
    BY <2>1 DEF Left
  <2>3. held'[t] \cap Row = {} /\ Counter \notin held'[t]
    BY <2>1, LockAssumption
  <2> QED
    BY <2>1, <2>2, <2>3 DEF LocksInOrder
<1>3. ASSUME NEW t \in Tx, UpsertRow(t) \/ DeleteRow(t)
      PROVE  LocksInOrder'
  <2>1. PICK k \in NextRows(t) :
          /\ pc[t] = "rows" /\ UNCHANGED pc
          /\ todo' = [todo EXCEPT ![t][k] = @ - 1]
          /\ held' = held \/ held' = [held EXCEPT ![t] = @ \cup {k}]
    BY <1>3 DEF UpsertRow, DeleteRow, Write
  <2> QED
    BY <2>1, RowsStayInOrder
<1>4. ASSUME NEW t \in Tx, Reserve(t) \/ NothingToLog(t)
      PROVE  LocksInOrder'
  <2>1. /\ todo' = todo /\ pc'[t] = "commit"
        /\ \A u \in Tx \ {t} : held'[u] = held[u] /\ pc'[u] = pc[u]
    BY <1>4 DEF Reserve, NothingToLog, TypeOK
  <2>2. \A u \in Tx : Left(u)' = Left(u)
    BY <2>1 DEF Left
  <2> QED
    BY <2>1, <2>2 DEF LocksInOrder
<1>5. ASSUME NEW t \in Tx, Commit(t) \/ Abort(t)
      PROVE  LocksInOrder'
  BY <1>5, EndInOrder DEF Commit, Abort
<1>6. CASE UNCHANGED vars
  BY <1>6 DEF vars, txVars, LocksInOrder, Left
<1>7. CASE Next
  <2>1. PICK t \in Tx : Statement(t) \/ Commit(t)
    BY <1>7 DEF Next
  <2>2. CASE \/ UpdateDocument(t) \/ DeleteDocument(t)
             \/ SetProperties(t) \/ DeleteProperties(t)
    BY <1>1, <2>2
       DEF UpdateDocument, DeleteDocument, SetProperties, DeleteProperties
  <2> QED
    BY <1>2, <1>3, <1>4, <1>5, <2>1, <2>2 DEF Statement
<1> QED
  BY <1>6, <1>7

THEOREM LockInvariant == Spec => []LockInv
  BY LockInvInit, LockInvNext, PTL DEF Spec

-----------------------------------------------------------------------------
(* The order has no ring *)

LEMMA WantedAbove ==
  ASSUME LockInv, NEW t \in Tx, NEW l \in held[t], NEW m \in Wanted(t)
  PROVE  Before(l, m)
<1>1. l \in Owner \cup Row \cup {Counter}
  BY DEF LockInv, TypeOK, Lock
<1>2. CASE m \in {o \in sub[t] \ users : pc[t] = "user"}
  BY <1>2 DEF LockInv, LocksInOrder
<1>3. CASE m \in NextRows(t) \ held[t] /\ pc[t] = "rows"
  <2>1. m \in Left(t) /\ m \in Row /\ l # Counter
    BY <1>3 DEF NextRows, Left, LockInv, LocksInOrder
  <2>2. CASE l \in Row
    <3>1. l <= m /\ l # m
      BY <1>3, <2>1, <2>2 DEF LockInv, LocksInOrder
    <3> QED
      BY <3>1, <2>1, <2>2, RowAssumption DEF Before
  <2> QED
    BY <1>1, <2>1, <2>2 DEF Before
<1>4. CASE m = Counter /\ pc[t] = "rows"
  BY <1>1, <1>4 DEF Before, LockInv, LocksInOrder
<1> QED
  BY <1>2, <1>3, <1>4 DEF Wanted

\* Every lock is requested above all locks already held.
THEOREM LocksAreOrdered == Spec => []LockOrder
<1>1. LockInv => LockOrder
  BY WantedAbove DEF LockOrder
<1> QED
  BY <1>1, LockInvariant, PTL

LEMMA NoRing == LockInv => NoDeadlock
<1> SUFFICES ASSUME LockInv, NEW S \in SUBSET Tx,
                    \A t \in S : \E u \in S : WaitsFor(t, u)
             PROVE  S = {}
  BY DEF NoDeadlock
<1> DEFINE W == {k \in Row : \E t, u \in S : k \in Wanted(t) /\ k \in held[u]}
<1>1. ASSUME NEW u \in S, NEW l \in held[u]
      PROVE  \E k \in W : Before(l, k)
  <2>1. PICK w \in S : WaitsFor(u, w)
    OBVIOUS
  <2>2. PICK m \in Wanted(u) : m \in held[w]
    BY <2>1 DEF WaitsFor
  <2>3. Before(l, m)
    BY <2>2, WantedAbove
  <2>4. m # Counter
    <3>1. PICK x \in S : WaitsFor(w, x)
      OBVIOUS
    <3>2. pc[w] \in {"user", "rows"}
      BY <3>1 DEF WaitsFor, Wanted
    <3> QED
      BY <2>2, <3>2 DEF LockInv, LocksInOrder
  <2>5. m \in Row
    BY <2>3, <2>4 DEF Before
  <2> QED
    BY <2>2, <2>3, <2>5
<1>2. \A x \in W : \E y \in W : x < y
  <2> SUFFICES ASSUME NEW x \in W PROVE \E y \in W : x < y
    OBVIOUS
  <2>1. PICK u \in S : x \in held[u]
    OBVIOUS
  <2>2. PICK y \in W : Before(x, y)
    BY <1>1, <2>1
  <2>3. x \notin Owner /\ y # Counter
    BY LockAssumption
  <2> QED
    BY <2>2, <2>3 DEF Before
<1>3. W \subseteq Nat /\ IsFiniteSet(W)
  BY RowAssumption, FS_Subset
<1>4. W = {}
  <2> HIDE DEF W
  <2> QED
    BY <1>2, <1>3, NoEndlessClimb
<1> SUFFICES ASSUME NEW t \in S PROVE FALSE
  OBVIOUS
<1>5. PICK u \in S : WaitsFor(t, u)
  OBVIOUS
<1>6. PICK l \in held[u] : l \in Wanted(t)
  BY <1>5 DEF WaitsFor
<1> QED
  BY <1>1, <1>4, <1>6

\* Writers never wait for each other in a ring, for any number of writers and
\* any rows.
THEOREM WritersNeverDeadlock == Spec => []NoDeadlock
  BY NoRing, LockInvariant, PTL

-----------------------------------------------------------------------------
(* Owners *)

\* The user rows a transaction can refer to: committed ones and its own.
Known(t) == users \cup held[t]

\* An upsert has its owner's user row before it writes rows of that owner.
OwnerFirst == \A t \in Tx :
    /\ pc[t] = "user" => \A o \in sub[t], k \in Left(t) : OwnerOf[k] = o
    /\ pc[t] = "rows" /\ op[t] \in Upserts => \A k \in Left(t) : OwnerOf[k] \in Known(t)
    /\ \A k \in Row \cap held[t] : pending[t][k] > 0 => OwnerOf[k] \in Known(t)

OwnerInv == TypeOK /\ OwnerFirst /\ OwnersExist

\* What a transaction knows another one does not take away.
LEMMA OthersKnow ==
  ASSUME TypeOK, OwnerFirst, NEW t \in Tx, users \subseteq users',
         \A u \in Tx \ {t} : /\ pc'[u] = pc[u] /\ op'[u] = op[u] /\ sub'[u] = sub[u]
                             /\ todo'[u] = todo[u] /\ held'[u] = held[u]
                             /\ pending'[u] = pending[u],
         pc'[t] = "user" => \A o \in sub'[t], k \in Left(t)' : OwnerOf[k] = o,
         pc'[t] = "rows" /\ op'[t] \in Upserts => \A k \in Left(t)' : OwnerOf[k] \in Known(t)',
         \A k \in Row \cap held'[t] : pending'[t][k] > 0 => OwnerOf[k] \in Known(t)'
  PROVE  OwnerFirst'
<1>1. \A u \in Tx \ {t} : Left(u)' = Left(u) /\ Known(u) \subseteq Known(u)'
  BY DEF Left, Known
<1> QED
  BY <1>1 DEF OwnerFirst

LEMMA BeginOwned ==
  ASSUME OwnerInv, NEW t \in Tx, NEW o \in Owner, NEW c \in Op, NEW req \in [Row -> Nat],
         Begin(t, o, c, req), \A k \in Row : req[k] > 0 => OwnerOf[k] = o
  PROVE  OwnerFirst'
<1>1. /\ \A u \in Tx \ {t} : pc'[u] = pc[u] /\ op'[u] = op[u] /\ sub'[u] = sub[u] /\ todo'[u] = todo[u]
      /\ UNCHANGED <<users, held, pending>>
      /\ pc'[t] = IF c \in Upserts THEN "user" ELSE "rows"
      /\ op'[t] = c /\ sub'[t] \subseteq {o} /\ todo'[t] = req
  BY DEF OwnerInv, TypeOK, Begin, tables
<1>2. \A k \in Left(t)' : OwnerOf[k] = o
  BY <1>1 DEF Left
<1>3. Known(t)' = Known(t)
  BY <1>1 DEF Known
<1> QED
  BY <1>1, <1>2, <1>3, OthersKnow DEF OwnerInv, OwnerFirst

LEMMA WriteOwned ==
  ASSUME OwnerInv, NEW t \in Tx, pc[t] = "rows", NEW k \in NextRows(t), NEW v \in Nat, NEW type,
         Write(t, k, v, type), v > 0 => op[t] \in Upserts
  PROVE  OwnerFirst'
<1>1. k \in Left(t) /\ k \in Row /\ todo[t][k] \in Nat
  BY DEF NextRows, Left, OwnerInv, TypeOK
<1>2. /\ \A u \in Tx \ {t} : todo'[u] = todo[u] /\ held'[u] = held[u] /\ pending'[u] = pending[u]
      /\ UNCHANGED <<users, pc, op, sub>>
      /\ held'[t] = held[t] \cup {k}
      /\ pending'[t] = [pending[t] EXCEPT ![k] = v]
      /\ todo'[t] = [todo[t] EXCEPT ![k] = @ - 1]
  BY DEF OwnerInv, TypeOK, Write, tables
<1>3. Left(t)' \subseteq Left(t)
  BY <1>1, <1>2 DEF Left, OwnerInv, TypeOK
<1>4. Known(t) \subseteq Known(t)'
  BY <1>2 DEF Known
<1>5. \A j \in Row \cap held'[t] : pending'[t][j] > 0 => OwnerOf[j] \in Known(t)'
  BY <1>1, <1>2, <1>4 DEF OwnerInv, OwnerFirst, TypeOK
<1> QED
  BY <1>2, <1>3, <1>4, <1>5, OthersKnow DEF OwnerInv, OwnerFirst

LEMMA EndOwned ==
  ASSUME OwnerInv, NEW t \in Tx, End(t), users \subseteq users'
  PROVE  OwnerFirst'
<1>1. /\ \A u \in Tx \ {t} : /\ pc'[u] = pc[u] /\ op'[u] = op[u] /\ sub'[u] = sub[u]
                             /\ todo'[u] = todo[u] /\ held'[u] = held[u]
                             /\ pending'[u] = pending[u]
      /\ pc'[t] = "idle" /\ held'[t] = {}
  BY DEF OwnerInv, TypeOK, End
<1> QED
  BY <1>1, OthersKnow DEF OwnerInv

LEMMA OwnerInvNext == OwnerInv /\ [Next]_vars => OwnerInv'
<1> SUFFICES ASSUME OwnerInv, [Next]_vars PROVE OwnerFirst' /\ OwnersExist'
  BY TypeNext DEF OwnerInv
<1>0. TypeOK
  BY DEF OwnerInv
<1>a. ASSUME UNCHANGED <<users, rows>> PROVE OwnersExist'
  BY <1>a DEF OwnerInv, OwnersExist
<1>b. ASSUME NEW t \in Tx, NEW o \in Owner, NEW c \in Op, NEW k, OwnerOf[k] = o,
             Begin(t, o, c, OneRow(k))
      PROVE  OwnerFirst' /\ OwnersExist'
  <2>1. OneRow(k) \in [Row -> Nat] /\ \A j \in Row : OneRow(k)[j] > 0 => OwnerOf[j] = o
    BY <1>b, OneRowType DEF OneRow
  <2> QED
    BY <1>a, <1>b, <2>1, BeginOwned DEF Begin, tables
<1>c. ASSUME NEW t \in Tx, NEW o \in Owner, NEW c \in Op,
             NEW rq \in [PropsOf(o) -> 0..MaxRepeat], Begin(t, o, c, Request(rq))
      PROVE  OwnerFirst' /\ OwnersExist'
  <2>1. Request(rq) \in [Row -> Nat] /\ \A j \in Row : Request(rq)[j] > 0 => OwnerOf[j] = o
    BY RequestType DEF Request, PropsOf
  <2> QED
    BY <1>a, <1>c, <2>1, BeginOwned DEF Begin, tables
<1>1. ASSUME NEW t \in Tx, UpdateDocument(t) PROVE OwnerFirst' /\ OwnersExist'
  BY <1>1, <1>b DEF UpdateDocument, DocsOf, Op, Upserts
<1>2. ASSUME NEW t \in Tx, DeleteDocument(t) PROVE OwnerFirst' /\ OwnersExist'
  BY <1>2, <1>b DEF DeleteDocument, DocsOf, Op, Upserts
<1>3. ASSUME NEW t \in Tx, SetProperties(t) PROVE OwnerFirst' /\ OwnersExist'
  BY <1>3, <1>c DEF SetProperties, Op, Upserts
<1>4. ASSUME NEW t \in Tx, DeleteProperties(t) PROVE OwnerFirst' /\ OwnersExist'
  BY <1>4, <1>c DEF DeleteProperties, Op, Upserts
<1>5. ASSUME NEW t \in Tx, UpsertUser(t) PROVE OwnerFirst' /\ OwnersExist'
  <2>1. PICK o \in sub[t] : \/ o \in users /\ held' = held
                            \/ held' = [held EXCEPT ![t] = @ \cup {o}]
    BY <1>5 DEF UpsertUser
  <2>2. /\ pc[t] = "user" /\ pc'[t] = "rows"
        /\ \A u \in Tx \ {t} : pc'[u] = pc[u] /\ sub'[u] = sub[u]
        /\ UNCHANGED <<users, rows, op, todo, pending>>
    BY <1>0, <1>5 DEF UpsertUser, TypeOK, tables
  <2>3. /\ \A u \in Tx \ {t} : held'[u] = held[u]
        /\ held[t] \subseteq held'[t] /\ held'[t] \subseteq held[t] \cup {o}
        /\ o \in Known(t)' /\ o \in Owner
    BY <1>0, <2>1, <2>2 DEF TypeOK, Known
  <2>4. \A k \in Left(t)' : OwnerOf[k] = o
    BY <2>2 DEF OwnerInv, OwnerFirst, Left
  <2>5. held'[t] \cap Row = held[t] \cap Row /\ Known(t) \subseteq Known(t)'
    BY <2>2, <2>3, LockAssumption DEF Known
  <2>6. OwnerFirst'
    BY <1>0, <2>2, <2>3, <2>4, <2>5, OthersKnow DEF OwnerInv, OwnerFirst
  <2> QED
    BY <1>a, <2>2, <2>6
<1>6. ASSUME NEW t \in Tx, UpsertRow(t) PROVE OwnerFirst' /\ OwnersExist'
  <2>1. PICK k \in NextRows(t) : Write(t, k, NextVersion(t, k), "update")
    BY <1>6 DEF UpsertRow
  <2>2. NextVersion(t, k) \in Nat /\ pc[t] = "rows" /\ op[t] \in Upserts
    BY <1>0, <1>6, CurrentType DEF NextVersion, NextRows, Left, UpsertRow
  <2> QED
    BY <1>a, <2>1, <2>2, WriteOwned DEF Write, tables
<1>7. ASSUME NEW t \in Tx, DeleteRow(t) PROVE OwnerFirst' /\ OwnersExist'
  <2>1. PICK k \in NextRows(t) :
          \/ Write(t, k, 0, "delete")
          \/ /\ todo' = [todo EXCEPT ![t][k] = @ - 1]
             /\ UNCHANGED <<tables, pc, op, sub, held, pending, ev, base>>
    BY <1>7 DEF DeleteRow
  <2>2. pc[t] = "rows" /\ op[t] \notin Upserts
    BY <1>7 DEF DeleteRow
  <2>3. CASE Write(t, k, 0, "delete")
    BY <1>a, <2>2, <2>3, WriteOwned, 0 \in Nat, ~(0 > 0) DEF Write, tables
  <2>4. CASE /\ todo' = [todo EXCEPT ![t][k] = @ - 1]
             /\ UNCHANGED <<tables, pc, op, sub, held, pending, ev, base>>
    <3>1. \A u \in Tx \ {t} : todo'[u] = todo[u]
      BY <1>0, <2>4 DEF TypeOK
    <3>2. UNCHANGED <<users, rows, pc, op, sub, held, pending>>
      BY <2>4 DEF tables
    <3>3. Known(t)' = Known(t)
      BY <3>2 DEF Known
    <3>4. OwnerFirst'
      BY <1>0, <2>2, <3>1, <3>2, <3>3, OthersKnow DEF OwnerInv, OwnerFirst
    <3> QED
      BY <1>a, <3>2, <3>4
  <2> QED
    BY <2>1, <2>3, <2>4
<1>8. ASSUME NEW t \in Tx, Reserve(t) \/ NothingToLog(t) PROVE OwnerFirst' /\ OwnersExist'
  <2>1. /\ pc'[t] = "commit" /\ \A u \in Tx \ {t} : pc'[u] = pc[u] /\ held'[u] = held[u]
        /\ held[t] \subseteq held'[t] /\ held'[t] \subseteq held[t] \cup {Counter}
        /\ UNCHANGED <<users, rows, op, sub, todo, pending>>
    BY <1>0, <1>8 DEF Reserve, NothingToLog, TypeOK, tables
  <2>2. held'[t] \cap Row = held[t] \cap Row /\ Known(t) \subseteq Known(t)'
    BY <2>1, LockAssumption DEF Known
  <2>3. OwnerFirst'
    BY <1>0, <2>1, <2>2, OthersKnow DEF OwnerInv, OwnerFirst
  <2> QED
    BY <1>a, <2>1, <2>3
<1>9. ASSUME NEW t \in Tx, Commit(t) PROVE OwnerFirst' /\ OwnersExist'
  <2>1. End(t) /\ users' = users \cup (held[t] \cap Owner) /\ rows' = [k \in Row |-> Current(t, k)]
    BY <1>9 DEF Commit
  <2>2. OwnerFirst'
    BY <2>1, EndOwned
  <2>3. ASSUME NEW k \in Row, rows'[k] > 0 PROVE OwnerOf[k] \in users'
    <3>1. OwnerOf[k] \in Owner
      BY OwnerAssumption
    <3>2. CASE k \in held[t]
      BY <2>1, <2>3, <3>1, <3>2 DEF Current, OwnerInv, OwnerFirst, Known
    <3>3. CASE k \notin held[t]
      BY <2>1, <2>3, <3>3 DEF Current, OwnerInv, OwnersExist
    <3> QED
      BY <3>2, <3>3
  <2> QED
    BY <2>2, <2>3 DEF OwnersExist
<1>10. ASSUME NEW t \in Tx, Abort(t) PROVE OwnerFirst' /\ OwnersExist'
  BY <1>a, <1>10, EndOwned DEF Abort, tables
<1>11. CASE UNCHANGED vars
  BY <1>11 DEF OwnerInv, vars, tables, txVars, OwnerFirst, OwnersExist, Left, Known
<1> QED
  BY <1>1, <1>2, <1>3, <1>4, <1>5, <1>6, <1>7, <1>8, <1>9, <1>10, <1>11 DEF Next, Statement

\* The owner's foreign keys never fail: a row has its owner's user row from the
\* commit that makes it visible on, whichever transactions are rolled back.
THEOREM OwnersAlwaysExist == Spec => []OwnersExist
<1>1. Init => OwnerInv
  BY TypeInit DEF Init, OwnerInv, OwnerFirst, OwnersExist, NoRows
<1>2. OwnerInv => OwnersExist
  BY DEF OwnerInv
<1> QED
  BY <1>1, <1>2, OwnerInvNext, PTL DEF Spec

-----------------------------------------------------------------------------
(* The log explains the rows *)

\* An event e of a row says that its version is v.
Explains(e, v) ==
    /\ (v = 0) <=> (e.type = "delete")
    /\ (e.row \in Doc /\ e.type = "update") => e.version = v

\* A transaction has locked exactly the rows that it has events for, and the
\* last event of each says what it has written.
Accounted(locks, events, written) == \A k \in Row :
    /\ k \in locks <=> \E i \in 1..Len(events) : events[i].row = k
    /\ \A i \in 1..Len(events) :
          (events[i].row = k /\ \A j \in 1..Len(events) : events[j].row = k => j <= i)
              => Explains(events[i], written[k])

EventsExplain == \A t \in Tx : Accounted(held[t], ev[t], pending[t])

ExplainInv == LogInv /\ EventsExplain /\ LogExplainsRows

\* A step that changes no more than a lock on another kind of row.
LEMMA NothingWritten ==
  ASSUME EventsExplain, UNCHANGED <<ev, pending>>,
         \A t \in Tx : held'[t] \cap Row = held[t] \cap Row
  PROVE  EventsExplain'
<1> SUFFICES ASSUME NEW t \in Tx PROVE Accounted(held'[t], ev[t], pending[t])
  BY DEF EventsExplain
<1>1. Accounted(held[t], ev[t], pending[t]) /\ held'[t] \cap Row = held[t] \cap Row
  BY DEF EventsExplain
<1> QED
  BY <1>1 DEF Accounted

LEMMA WriteExplained ==
  ASSUME TypeOK, EventsExplain, NEW t \in Tx, NEW k \in Row, NEW v \in Nat,
         NEW type \in {"update", "delete"}, Write(t, k, v, type),
         v = 0 <=> type = "delete"
  PROVE  EventsExplain'
<1> DEFINE e == [row |-> k, type |-> type,
                 version |-> IF type = "update" /\ k \in Doc THEN v ELSE 0]
           n == Len(ev[t])
<1>1. /\ \A u \in Tx \ {t} : held'[u] = held[u] /\ ev'[u] = ev[u] /\ pending'[u] = pending[u]
      /\ held'[t] = held[t] \cup {k}
      /\ pending'[t] = [pending[t] EXCEPT ![k] = v]
      /\ ev'[t] = Append(ev[t], e)
  BY DEF TypeOK, Write
<1>2. ev[t] \in Seq(Event) /\ n \in Nat /\ e \in Event /\ e.row = k
  <2>1. ev[t] \in Seq(Event)
    BY DEF TypeOK
  <2>2. e \in Event
    BY DEF Event
  <2> QED
    BY <2>1, <2>2
<1>3. Len(ev'[t]) = n + 1 /\ ev'[t][n + 1] = e /\ \A i \in 1..n : ev'[t][i] = ev[t][i]
  BY <1>1, <1>2
<1>4. ASSUME NEW j \in Row
      PROVE  j \in held'[t] <=> \E i \in 1..Len(ev'[t]) : ev'[t][i].row = j
  <2>1. CASE j = k
    BY <1>1, <1>2, <1>3, <2>1
  <2>2. CASE j # k
    <3>1. j \in held'[t] <=> j \in held[t]
      BY <1>1, <2>2
    <3>2. (\E i \in 1..(n + 1) : ev'[t][i].row = j) <=> (\E i \in 1..n : ev[t][i].row = j)
      <4>1. ASSUME NEW i \in 1..(n + 1), ev'[t][i].row = j PROVE i \in 1..n
        BY <1>2, <1>3, <2>2, <4>1
      <4>2. 1..n \subseteq 1..(n + 1)
        BY <1>2
      <4> HIDE DEF n
      <4> QED
        BY <1>3, <4>1, <4>2
    <3>3. j \in held[t] <=> \E i \in 1..n : ev[t][i].row = j
      BY DEF EventsExplain, Accounted
    <3> QED
      BY <1>3, <3>1, <3>2, <3>3
  <2> QED
    BY <2>1, <2>2
<1>5. ASSUME NEW j \in Row, NEW i \in 1..Len(ev'[t]), ev'[t][i].row = j,
             \A l \in 1..Len(ev'[t]) : ev'[t][l].row = j => l <= i
      PROVE  Explains(ev'[t][i], pending'[t][j])
  <2>1. CASE i = n + 1
    <3>1. j = k /\ pending'[t][j] = v
      BY <1>1, <1>2, <1>3, <1>5, <2>1 DEF TypeOK
    <3>2. Explains(e, v)
      BY <1>2 DEF Explains
    <3> QED
      BY <1>3, <2>1, <3>1, <3>2
  <2>2. CASE i # n + 1
    <3>1. i \in 1..n /\ j # k
      BY <1>2, <1>3, <1>5, <2>2
    <3>2. ev'[t][i] = ev[t][i] /\ pending'[t][j] = pending[t][j]
      BY <1>1, <1>3, <3>1 DEF TypeOK
    <3>3. \A l \in 1..n : ev[t][l].row = j => l <= i
      BY <1>2, <1>3, <1>5
    <3> QED
      BY <1>5, <3>1, <3>2, <3>3 DEF EventsExplain, Accounted
  <2> QED
    BY <2>1, <2>2
<1>6. Accounted(held'[t], ev'[t], pending'[t])
  BY <1>4, <1>5 DEF Accounted
<1>7. \A u \in Tx \ {t} : Accounted(held'[u], ev'[u], pending'[u])
  BY <1>1 DEF EventsExplain
<1> QED
  BY <1>6, <1>7 DEF EventsExplain

LEMMA EndExplained ==
  ASSUME TypeOK, EventsExplain, NEW t \in Tx, End(t)
  PROVE  EventsExplain'
<1>1. /\ \A u \in Tx \ {t} : held'[u] = held[u] /\ ev'[u] = ev[u] /\ pending'[u] = pending[u]
      /\ held'[t] = {} /\ ev'[t] = <<>>
  BY DEF TypeOK, End
<1>2. Len(ev'[t]) = 0
  BY <1>1
<1>3. Accounted(held'[t], ev'[t], pending'[t])
  BY <1>1, <1>2 DEF Accounted
<1> QED
  BY <1>1, <1>3 DEF EventsExplain

\* A commit appends the events of each row it changes, in order.
LEMMA CommitExplained ==
  ASSUME ExplainInv, NEW t \in Tx, Commit(t)
  PROVE  LogExplainsRows'
<1> DEFINE n == Len(ev[t])
           Logged(i) == [id |-> EntryId(t, i), row |-> ev[t][i].row,
                         type |-> ev[t][i].type, version |-> ev[t][i].version]
<1>1. /\ rows' = [j \in Row |-> Current(t, j)]
      /\ log' = log \cup EntriesOf(t)
      /\ \A e \in EntriesOf(t) : e.id \in (counter + 1)..counter'
  BY CommitContinuesLog DEF Commit, ExplainInv
<1>2. EntriesOf(t) = {Logged(i) : i \in 1..n}
  BY DEF EntriesOf
<1>3. /\ counter \in Nat /\ base[t] \in Nat /\ n \in Nat /\ ev[t] \in Seq(Event)
      /\ \A e \in log : e.id \in 1..counter
  BY DEF ExplainInv, LogInv, TypeOK, GaplessLog
<1> SUFFICES ASSUME NEW k \in Row
             PROVE  LET mine == {e \in log' : e.row = k}
                    IN  /\ mine = {} => rows'[k] = 0
                        /\ \A e \in mine : (\A f \in mine : f.id <= e.id) =>
                              /\ (rows'[k] = 0) <=> (e.type = "delete")
                              /\ (k \in Doc /\ e.type = "update") => (e.version = rows'[k])
  BY DEF LogExplainsRows
<1> DEFINE mine == {e \in log' : e.row = k}
<1>4. CASE k \notin held[t]
  <2>1. \A i \in 1..n : ev[t][i].row # k
    BY <1>4 DEF ExplainInv, EventsExplain, Accounted
  <2>2. mine = {e \in log : e.row = k}
    BY <1>1, <1>2, <2>1
  <2>3. rows'[k] = rows[k]
    BY <1>1, <1>4 DEF Current
  <2> QED
    BY <2>2, <2>3 DEF ExplainInv, LogExplainsRows
<1>5. CASE k \in held[t]
  <2>1. PICK i0 \in 1..n : ev[t][i0].row = k
    BY <1>5 DEF ExplainInv, EventsExplain, Accounted
  <2>2. Logged(i0) \in mine /\ Logged(i0).id > counter
    <3>1. Logged(i0) \in EntriesOf(t) /\ Logged(i0).row = k
      BY <1>2, <2>1
    <3> QED
      BY <1>1, <1>3, <3>1
  <2>3. ASSUME NEW e \in mine, \A f \in mine : f.id <= e.id
        PROVE  /\ (rows'[k] = 0) <=> (e.type = "delete")
               /\ (k \in Doc /\ e.type = "update") => (e.version = rows'[k])
    <3>1. e \notin log
      <4> SUFFICES ASSUME e \in log PROVE FALSE
        OBVIOUS
      <4>1. e.id \in 1..counter /\ Logged(i0).id <= e.id /\ Logged(i0).id \in Nat
        BY <1>3, <2>2, <2>3 DEF EntryId
      <4> QED
        BY <1>3, <2>2, <4>1
    <3>2. PICK i \in 1..n : e = Logged(i)
      BY <1>1, <1>2, <3>1
    <3>3. ev[t][i].row = k
      BY <3>2
    <3>4. ASSUME NEW j \in 1..n, ev[t][j].row = k PROVE j <= i
      <4>1. Logged(j) \in mine
        BY <1>1, <1>2, <3>4
      <4>2. Logged(j).id <= e.id
        BY <2>3, <4>1
      <4>3. EntryId(t, j) <= EntryId(t, i)
        BY <3>2, <4>2
      <4> QED
        BY <1>3, <4>3 DEF EntryId
    <3>5. Explains(ev[t][i], pending[t][k])
      BY <3>3, <3>4 DEF ExplainInv, EventsExplain, Accounted
    <3>6. rows'[k] = pending[t][k] /\ e.type = ev[t][i].type /\ e.version = ev[t][i].version
      BY <1>1, <1>5, <3>2 DEF Current
    <3> QED
      BY <3>3, <3>5, <3>6 DEF Explains
  <2> QED
    BY <2>2, <2>3
<1> QED
  BY <1>4, <1>5

LEMMA ExplainInvNext == ExplainInv /\ [Next]_vars => ExplainInv'
<1> SUFFICES ASSUME ExplainInv, [Next]_vars PROVE EventsExplain' /\ LogExplainsRows'
  BY LogInvNext DEF ExplainInv
<1>0. TypeOK /\ EventsExplain /\ LogExplainsRows
  BY DEF ExplainInv, LogInv
<1>a. ASSUME UNCHANGED <<rows, log>> PROVE LogExplainsRows'
  BY <1>0, <1>a DEF LogExplainsRows
<1>1. ASSUME NEW t \in Tx, NEW o, NEW c, NEW req, Begin(t, o, c, req)
      PROVE  EventsExplain' /\ LogExplainsRows'
  BY <1>0, <1>a, <1>1, NothingWritten DEF Begin, tables
<1>2. ASSUME NEW t \in Tx, UpsertUser(t) \/ Reserve(t) \/ NothingToLog(t)
      PROVE  EventsExplain' /\ LogExplainsRows'
  <2>1. \/ held' = held
        \/ \E l \in Owner \cup {Counter} : held' = [held EXCEPT ![t] = @ \cup {l}]
    <3>1. sub[t] \subseteq Owner
      BY <1>0 DEF TypeOK
    <3> QED
      BY <1>2, <3>1 DEF UpsertUser, Reserve, NothingToLog
  <2>2. UNCHANGED <<rows, log, ev, pending>>
    BY <1>2 DEF UpsertUser, Reserve, NothingToLog, tables
  <2>3. \A u \in Tx : held'[u] \cap Row = held[u] \cap Row
    <3>1. CASE held' = held
      BY <3>1
    <3>2. ASSUME NEW l \in Owner \cup {Counter}, held' = [held EXCEPT ![t] = @ \cup {l}]
          PROVE  \A u \in Tx : held'[u] \cap Row = held[u] \cap Row
      <4>1. l \notin Row
        BY LockAssumption
      <4>2. held \in [Tx -> SUBSET Lock]
        BY <1>0 DEF TypeOK
      <4>3. held'[t] = held[t] \cup {l} /\ \A u \in Tx \ {t} : held'[u] = held[u]
        BY <3>2, <4>2
      <4> QED
        BY <4>1, <4>3
    <3> QED
      BY <2>1, <3>1, <3>2
  <2> QED
    BY <1>0, <1>a, <2>2, <2>3, NothingWritten
<1>3. ASSUME NEW t \in Tx, UpsertRow(t) PROVE EventsExplain' /\ LogExplainsRows'
  <2>1. PICK k \in NextRows(t) : Write(t, k, NextVersion(t, k), "update")
    BY <1>3 DEF UpsertRow
  <2>2. k \in Row /\ Current(t, k) \in Nat
    BY <1>0, CurrentType DEF NextRows, Left
  <2>3. NextVersion(t, k) \in Nat /\ NextVersion(t, k) # 0
    BY <2>2 DEF NextVersion
  <2>4. EventsExplain'
    BY <1>0, <2>1, <2>2, <2>3, WriteExplained
  <2> QED
    BY <1>a, <2>1, <2>4 DEF Write, tables
<1>4. ASSUME NEW t \in Tx, DeleteRow(t) PROVE EventsExplain' /\ LogExplainsRows'
  <2>1. PICK k \in NextRows(t) : \/ Write(t, k, 0, "delete")
                                  \/ UNCHANGED <<tables, pc, op, sub, held, pending, ev, base>>
    BY <1>4 DEF DeleteRow
  <2>2. CASE Write(t, k, 0, "delete")
    <3>1. k \in Row
      BY DEF NextRows, Left
    <3>2. EventsExplain'
      BY <1>0, <2>2, <3>1, WriteExplained
    <3> QED
      BY <1>a, <2>2, <3>2 DEF Write, tables
  <2>3. CASE UNCHANGED <<tables, pc, op, sub, held, pending, ev, base>>
    BY <1>0, <1>a, <2>3, NothingWritten DEF tables
  <2> QED
    BY <2>1, <2>2, <2>3
<1>5. ASSUME NEW t \in Tx, Commit(t) PROVE EventsExplain' /\ LogExplainsRows'
  BY <1>0, <1>5, CommitExplained, EndExplained DEF Commit
<1>6. ASSUME NEW t \in Tx, Abort(t) PROVE EventsExplain' /\ LogExplainsRows'
  BY <1>0, <1>a, <1>6, EndExplained DEF Abort, tables
<1>7. CASE UNCHANGED vars
  BY <1>0, <1>a, <1>7, NothingWritten DEF vars, tables, txVars
<1>8. CASE Next
  <2>1. PICK t \in Tx : Statement(t) \/ Commit(t)
    BY <1>8 DEF Next
  <2>2. CASE \/ UpdateDocument(t) \/ DeleteDocument(t)
             \/ SetProperties(t) \/ DeleteProperties(t)
    BY <1>1, <2>2 DEF UpdateDocument, DeleteDocument, SetProperties, DeleteProperties
  <2> QED
    BY <1>2, <1>3, <1>4, <1>5, <1>6, <2>1, <2>2 DEF Statement
<1> QED
  BY <1>7, <1>8

LEMMA ExplainInvInit == Init => ExplainInv
<1> SUFFICES ASSUME Init PROVE ExplainInv
  OBVIOUS
<1>1. EventsExplain
  BY DEF Init, EventsExplain, Accounted
<1>2. LogExplainsRows
  BY DEF Init, LogExplainsRows, NoRows
<1> QED
  BY <1>1, <1>2, LogInvInit DEF ExplainInv

\* The last entry of each row tells whether it exists and, for a document, its
\* version: a consumer of the eventlog ends up with what is in the tables,
\* however writers interleave and whatever is rolled back.
THEOREM LogTellsTheRows == Spec => []LogExplainsRows
<1>1. ExplainInv => LogExplainsRows
  BY DEF ExplainInv
<1> QED
  BY <1>1, ExplainInvInit, ExplainInvNext, PTL DEF Spec

-----------------------------------------------------------------------------
(* What a transaction is about *)

\* A call for a document names one row and changes it once at most, a call for
\* properties names those of one owner.
OneTarget(t) ==
    /\ op[t] \in {"UpdateDocument", "DeleteDocument"} => \E k \in Doc :
          /\ Left(t) \subseteq {k} /\ todo[t][k] + Len(ev[t]) <= 1
          /\ \A i \in 1..Len(ev[t]) : ev[t][i].row = k
    /\ op[t] \in {"SetProperties", "DeleteProperties"} => \E o \in Owner :
          /\ Left(t) \subseteq PropsOf(o)
          /\ \A i \in 1..Len(ev[t]) : ev[t][i].row \in PropsOf(o)

\* Its events are in the order of the rows, and name a deleted row once.
InOrder(t) == \A i, j \in 1..Len(ev[t]) : i < j =>
    /\ ev[t][i].row <= ev[t][j].row
    /\ op[t] \notin Upserts => ev[t][i].row # ev[t][j].row

\* They say what the call does to the committed rows, which nobody else changes
\* as long as it holds them.
Faithful(t) ==
    /\ \A i \in 1..Len(ev[t]) :
          ev[t][i] = IF op[t] \in Upserts
                     THEN Promise!Changed("update", ev[t][i].row,
                             IF ev[t][i].row \in Doc THEN rows[ev[t][i].row] + 1 ELSE 0)
                     ELSE Promise!Changed("delete", ev[t][i].row, 0)
    /\ \A k \in held[t] \cap Row :
          IF op[t] \in Upserts THEN pending[t][k] = IF k \in Doc THEN rows[k] + 1 ELSE 1
                               ELSE pending[t][k] = 0 /\ rows[k] > 0

\* The ids it has reserved are there.
HasRoom(t) == Counter \in held[t] => base[t] + Len(ev[t]) <= MaxId

OneWrite(t) == OneTarget(t) /\ InOrder(t) /\ Faithful(t) /\ HasRoom(t)

Called == \A t \in Tx : pc[t] # "idle" => op[t] \in Op

AtomicInv == ExplainInv /\ LocksInOrder /\ Called /\ \A t \in Tx : OneWrite(t)

LEMMA EventRowsHeld ==
  ASSUME AtomicInv, NEW t \in Tx, NEW i \in 1..Len(ev[t])
  PROVE  ev[t][i] \in Event /\ ev[t][i].row \in held[t] \cap Row
<1>1. ev[t][i] \in Event
  BY DEF AtomicInv, ExplainInv, LogInv, TypeOK
<1> QED
  BY <1>1 DEF Event, AtomicInv, ExplainInv, EventsExplain, Accounted

\* A transaction that has not begun has written nothing.
LEMMA IdleIsEmpty ==
  ASSUME AtomicInv, NEW t \in Tx, held[t] = {}
  PROVE  ev[t] = <<>>
<1>1. \A i \in 1..Len(ev[t]) : FALSE
  BY EventRowsHeld
<1>2. ev[t] \in Seq(Event)
  BY DEF AtomicInv, ExplainInv, LogInv, TypeOK
<1> QED
  BY <1>1, <1>2

\* The locks of a transaction keep others from changing what it is about.
LEMMA OthersUntouched ==
  ASSUME AtomicInv, NEW t \in Tx,
         ev'[t] = ev[t], op'[t] = op[t], pending'[t] = pending[t], base'[t] = base[t],
         held'[t] \cap Row = held[t] \cap Row, Counter \in held'[t] => Counter \in held[t],
         todo'[t] = todo[t], \A k \in held[t] \cap Row : rows'[k] = rows[k]
  PROVE  OneWrite(t)'
<1>1. Left(t)' = Left(t)
  BY DEF Left
<1>2. OneTarget(t)' /\ InOrder(t)' /\ HasRoom(t)'
  BY <1>1 DEF AtomicInv, OneWrite, OneTarget, InOrder, HasRoom
<1>3. \A i \in 1..Len(ev[t]) : rows'[ev[t][i].row] = rows[ev[t][i].row]
  BY EventRowsHeld
<1>4. Faithful(t)'
  BY <1>3 DEF AtomicInv, OneWrite, Faithful
<1> QED
  BY <1>2, <1>4 DEF OneWrite

\* A transaction that has nothing left to do with rows.
LEMMA EndIsAtomic ==
  ASSUME AtomicInv, NEW t \in Tx, End(t)
  PROVE  OneWrite(t)'
<1>1. ev'[t] = <<>> /\ op'[t] = "none" /\ held'[t] = {}
  BY DEF AtomicInv, ExplainInv, LogInv, TypeOK, End
<1>2. Len(ev'[t]) = 0
  BY <1>1
<1> QED
  BY <1>1, <1>2 DEF OneWrite, OneTarget, InOrder, Faithful, HasRoom

LEMMA BeginIsAtomic ==
  ASSUME AtomicInv, NEW t \in Tx, NEW o \in Owner, NEW c \in Op, NEW req \in [Row -> Nat],
         Begin(t, o, c, req),
         \/ /\ c \in {"UpdateDocument", "DeleteDocument"}
            /\ \E k \in Doc : req = OneRow(k)
         \/ /\ c \in {"SetProperties", "DeleteProperties"}
            /\ \A k \in Row : req[k] > 0 => k \in PropsOf(o)
  PROVE  \A u \in Tx : OneWrite(u)'
<1>1. /\ op'[t] = c /\ todo'[t] = req /\ held[t] = {}
      /\ UNCHANGED <<rows, held, pending, ev, base>>
      /\ \A u \in Tx \ {t} : op'[u] = op[u] /\ todo'[u] = todo[u]
  BY DEF AtomicInv, ExplainInv, LogInv, TypeOK, Begin, tables, LocksInOrder
<1>2. ev'[t] = <<>> /\ Len(ev'[t]) = 0
  BY <1>1, IdleIsEmpty
<1>3. OneTarget(t)'
  <2>1. ASSUME c \in {"UpdateDocument", "DeleteDocument"}, NEW k \in Doc, req = OneRow(k)
        PROVE  OneTarget(t)'
    <3>1. Left(t)' \subseteq {k} /\ req[k] = 1
      BY <1>1, <2>1 DEF OneRow, Left, Row
    <3>2. op'[t] \notin {"SetProperties", "DeleteProperties"} /\ todo'[t][k] + Len(ev'[t]) <= 1
      BY <1>1, <1>2, <2>1, <3>1
    <3> QED
      BY <1>2, <3>1, <3>2 DEF OneTarget
  <2>2. ASSUME c \in {"SetProperties", "DeleteProperties"},
               \A k \in Row : req[k] > 0 => k \in PropsOf(o)
        PROVE  OneTarget(t)'
    <3>1. Left(t)' \subseteq PropsOf(o)
      BY <1>1, <2>2 DEF Left
    <3>2. op'[t] \notin {"UpdateDocument", "DeleteDocument"}
      BY <1>1, <2>2
    <3> QED
      BY <1>2, <3>1, <3>2 DEF OneTarget
  <2> QED
    BY <2>1, <2>2
<1>4. OneWrite(t)'
  BY <1>1, <1>2, <1>3 DEF OneWrite, InOrder, Faithful, HasRoom
<1> QED
  BY <1>1, <1>4, OthersUntouched

\* A step that leaves a transaction fewer rows to write and writes none.
LEMMA SkipIsAtomic ==
  ASSUME AtomicInv, NEW t \in Tx, NEW k \in Left(t), todo' = [todo EXCEPT ![t][k] = @ - 1],
         UNCHANGED <<tables, pc, op, sub, held, pending, ev, base>>
  PROVE  \A u \in Tx : OneWrite(u)'
<1>1. /\ \A u \in Tx \ {t} : todo'[u] = todo[u]
      /\ k \in Row /\ \A j \in Row : todo'[t][j] \in Nat /\ todo'[t][j] <= todo[t][j]
  BY DEF AtomicInv, ExplainInv, LogInv, TypeOK, Left
<1>2. UNCHANGED <<rows, op, held, pending, ev, base>>
  BY DEF tables
<1>3. Left(t)' \subseteq Left(t)
  BY <1>1 DEF Left, AtomicInv, ExplainInv, LogInv, TypeOK
<1>4. OneTarget(t)'
  <2>1. ASSUME op[t] \in {"UpdateDocument", "DeleteDocument"}
        PROVE  \E d \in Doc : /\ Left(t)' \subseteq {d} /\ todo'[t][d] + Len(ev[t]) <= 1
                              /\ \A i \in 1..Len(ev[t]) : ev[t][i].row = d
    <3>1. PICK d \in Doc : /\ Left(t) \subseteq {d} /\ todo[t][d] + Len(ev[t]) <= 1
                           /\ \A i \in 1..Len(ev[t]) : ev[t][i].row = d
      BY <2>1 DEF AtomicInv, OneWrite, OneTarget
    <3>2. todo'[t][d] \in Nat /\ todo[t][d] \in Nat /\ todo'[t][d] <= todo[t][d] /\ Len(ev[t]) \in Nat
      BY <1>1 DEF AtomicInv, ExplainInv, LogInv, TypeOK, Row
    <3>3. todo'[t][d] + Len(ev[t]) <= 1
      BY <3>1, <3>2
    <3> QED
      BY <1>3, <3>1, <3>3
  <2> QED
    BY <1>2, <1>3, <2>1 DEF AtomicInv, OneWrite, OneTarget
<1>5. OneWrite(t)'
  BY <1>2, <1>4 DEF AtomicInv, OneWrite, InOrder, Faithful, HasRoom
<1> QED
  BY <1>1, <1>2, <1>5, OthersUntouched

LEMMA WriteIsAtomic ==
  ASSUME AtomicInv, NEW t \in Tx, pc[t] = "rows", NEW k \in NextRows(t), Free(t, k),
         NEW v, NEW type, Write(t, k, v, type),
         IF op[t] \in Upserts THEN type = "update" /\ v = NextVersion(t, k)
                              ELSE type = "delete" /\ v = 0 /\ Current(t, k) > 0
  PROVE  \A u \in Tx : OneWrite(u)'
<1> DEFINE e == [row |-> k, type |-> type,
                 version |-> IF type = "update" /\ k \in Doc THEN v ELSE 0]
           n == Len(ev[t])
<1>0. TypeOK /\ OneTarget(t) /\ InOrder(t) /\ Faithful(t)
  BY DEF AtomicInv, ExplainInv, LogInv, OneWrite
<1>1. /\ \A u \in Tx \ {t} : /\ held'[u] = held[u] /\ ev'[u] = ev[u] /\ pending'[u] = pending[u]
                             /\ todo'[u] = todo[u]
      /\ held'[t] = held[t] \cup {k}
      /\ pending'[t] = [pending[t] EXCEPT ![k] = v]
      /\ todo'[t] = [todo[t] EXCEPT ![k] = @ - 1]
      /\ ev'[t] = Append(ev[t], e)
      /\ UNCHANGED <<rows, op, base>>
  BY <1>0 DEF TypeOK, Write, tables
<1>2. k \in Left(t) /\ k \in Row /\ todo[t][k] \in Nat /\ todo[t][k] > 0
  BY <1>0 DEF NextRows, Left, TypeOK
<1>3. /\ n \in Nat /\ Len(ev'[t]) = n + 1 /\ ev'[t][n + 1] = e
      /\ \A i \in 1..n : ev'[t][i] = ev[t][i] /\ ev[t][i].row \in held[t] \cap Row
  <2>1. ev[t] \in Seq(Event)
    BY <1>0 DEF TypeOK
  <2> QED
    BY <1>1, <2>1, EventRowsHeld
<1>4. Left(t)' \subseteq Left(t)
  BY <1>1, <1>2 DEF Left
\* What is deleted, and a document, is not held yet.
<1>5. (op[t] \notin Upserts \/ k \in Doc) => k \notin held[t]
  <2>1. CASE op[t] \notin Upserts
    BY <1>0, <1>2, <2>1 DEF Current, Faithful
  <2>2. CASE op[t] \in Upserts /\ k \in Doc
    <3>1. op[t] = "UpdateDocument"
      BY <1>0, <1>2, <2>2, RowAssumption DEF OneTarget, PropsOf, Upserts
    <3>2. PICK d \in Doc : Left(t) \subseteq {d} /\ todo[t][d] + n <= 1
      BY <1>0, <3>1 DEF OneTarget
    <3>3. n = 0
      BY <1>2, <1>3, <3>2
    <3> QED
      BY <1>2, <3>3 DEF AtomicInv, ExplainInv, EventsExplain, Accounted
  <2> QED
    BY <2>1, <2>2
<1>6. OneTarget(t)'
  <2>1. ASSUME op[t] \in {"UpdateDocument", "DeleteDocument"}
        PROVE  \E d \in Doc : /\ Left(t)' \subseteq {d} /\ todo'[t][d] + Len(ev'[t]) <= 1
                              /\ \A i \in 1..Len(ev'[t]) : ev'[t][i].row = d
    <3>1. PICK d \in Doc : /\ Left(t) \subseteq {d} /\ todo[t][d] + n <= 1
                           /\ \A i \in 1..n : ev[t][i].row = d
      BY <1>0, <2>1 DEF OneTarget
    <3>2. k = d /\ todo'[t][d] = todo[t][d] - 1
      BY <1>1, <1>2, <3>1, <1>0 DEF TypeOK
    <3>3. todo'[t][d] + Len(ev'[t]) <= 1
      BY <1>2, <1>3, <3>1, <3>2
    <3>4. \A i \in 1..Len(ev'[t]) : ev'[t][i].row = d
      BY <1>3, <3>1, <3>2
    <3> QED
      BY <1>4, <3>1, <3>3, <3>4
  <2>2. ASSUME op[t] \in {"SetProperties", "DeleteProperties"}
        PROVE  \E o \in Owner : /\ Left(t)' \subseteq PropsOf(o)
                                /\ \A i \in 1..Len(ev'[t]) : ev'[t][i].row \in PropsOf(o)
    BY <1>0, <1>2, <1>3, <1>4, <2>2 DEF OneTarget
  <2> QED
    BY <1>1, <2>1, <2>2 DEF OneTarget
<1>7. InOrder(t)'
  <2>1. ASSUME NEW i \in 1..Len(ev'[t]), NEW j \in 1..Len(ev'[t]), i < j
        PROVE  /\ ev'[t][i].row <= ev'[t][j].row
               /\ op'[t] \notin Upserts => ev'[t][i].row # ev'[t][j].row
    <3>1. i \in 1..n
      BY <1>3, <2>1
    <3>2. CASE j = n + 1
      <4>1. ev[t][i].row <= k
        BY <1>2, <1>3, <3>1 DEF AtomicInv, LocksInOrder
      <4> QED
        BY <1>1, <1>3, <1>5, <3>1, <3>2, <4>1
    <3>3. CASE j # n + 1
      BY <1>0, <1>1, <1>3, <2>1, <3>1, <3>3 DEF InOrder
    <3> QED
      BY <3>2, <3>3
  <2> QED
    BY <2>1 DEF InOrder
<1>8. k \in Doc /\ op[t] \in Upserts => v = rows[k] + 1
  BY <1>5 DEF NextVersion, Current
<1>9. Faithful(t)'
  <2>1. ASSUME NEW i \in 1..Len(ev'[t])
        PROVE  ev'[t][i] = IF op[t] \in Upserts
                           THEN Promise!Changed("update", ev'[t][i].row,
                                   IF ev'[t][i].row \in Doc THEN rows[ev'[t][i].row] + 1 ELSE 0)
                           ELSE Promise!Changed("delete", ev'[t][i].row, 0)
    <3>1. CASE i = n + 1
      BY <1>3, <1>8, <3>1 DEF Promise!Changed
    <3>2. CASE i \in 1..n
      BY <1>0, <1>3, <3>2 DEF Faithful
    <3> QED
      BY <1>3, <3>1, <3>2
  <2>2. ASSUME NEW j \in held'[t] \cap Row
        PROVE  IF op[t] \in Upserts THEN pending'[t][j] = IF j \in Doc THEN rows[j] + 1 ELSE 1
                                    ELSE pending'[t][j] = 0 /\ rows[j] > 0
    <3>1. CASE j = k
      <4>1. pending'[t][k] = v
        BY <1>0, <1>1, <1>2 DEF TypeOK
      <4> QED
        BY <1>5, <1>8, <3>1, <4>1 DEF NextVersion, Current
    <3>2. CASE j # k
      <4>1. j \in held[t] \cap Row /\ pending'[t][j] = pending[t][j]
        BY <1>0, <1>1, <2>2, <3>2 DEF TypeOK
      <4> QED
        BY <1>0, <4>1 DEF Faithful
    <3> QED
      BY <3>1, <3>2
  <2> QED
    BY <1>1, <2>1, <2>2 DEF Faithful
<1>10. HasRoom(t)'
  <2>1. Counter \notin held'[t]
    BY <1>1, <1>2, LockAssumption DEF AtomicInv, LocksInOrder
  <2> QED
    BY <2>1 DEF HasRoom
<1> QED
  BY <1>1, <1>6, <1>7, <1>9, <1>10, OthersUntouched DEF OneWrite

LEMMA ReserveIsAtomic ==
  ASSUME AtomicInv, NEW t \in Tx, UpsertUser(t) \/ Reserve(t) \/ NothingToLog(t)
  PROVE  \A u \in Tx : OneWrite(u)'
<1>0. TypeOK
  BY DEF AtomicInv, ExplainInv, LogInv
<1>1. UNCHANGED <<rows, op, todo, pending, ev>>
  BY DEF UpsertUser, Reserve, NothingToLog, tables
<1>2. /\ \A u \in Tx \ {t} : held'[u] = held[u] /\ base'[u] = base[u]
      /\ held'[t] \cap Row = held[t] \cap Row
  <2>1. /\ base' = base \/ base' = [base EXCEPT ![t] = counter]
        /\ \/ held' = held
           \/ \E l \in Owner \cup {Counter} : held' = [held EXCEPT ![t] = @ \cup {l}]
    <3>1. sub[t] \subseteq Owner
      BY <1>0 DEF TypeOK
    <3> QED
      BY <3>1 DEF UpsertUser, Reserve, NothingToLog
  <2>2. held \in [Tx -> SUBSET Lock] /\ base \in [Tx -> Nat]
    BY <1>0 DEF TypeOK
  <2>3. \A u \in Tx \ {t} : held'[u] = held[u] /\ base'[u] = base[u]
    BY <2>1, <2>2
  <2>4. ASSUME NEW l \in Owner \cup {Counter}, held' = [held EXCEPT ![t] = @ \cup {l}]
        PROVE  held'[t] \cap Row = held[t] \cap Row
    BY <2>2, <2>4, LockAssumption
  <2> QED
    BY <2>1, <2>3, <2>4
<1>3. HasRoom(t)'
  <2>1. CASE Reserve(t)
    BY <1>0, <2>1 DEF Reserve, HasRoom, TypeOK
  <2>2. CASE UpsertUser(t)
    <3>1. Counter \notin held[t]
      BY <2>2 DEF UpsertUser, AtomicInv, LocksInOrder
    <3>2. sub[t] \subseteq Owner /\ held \in [Tx -> SUBSET Lock]
      BY <1>0 DEF TypeOK
    <3>3. Counter \notin held'[t]
      BY <2>2, <3>1, <3>2, LockAssumption DEF UpsertUser
    <3> QED
      BY <3>3 DEF HasRoom
  <2>3. CASE NothingToLog(t)
    BY <1>1, <2>3 DEF NothingToLog, AtomicInv, OneWrite, HasRoom
  <2> QED
    BY <2>1, <2>2, <2>3
<1>4. Left(t)' = Left(t)
  BY <1>1 DEF Left
<1>5. OneWrite(t)'
  BY <1>1, <1>2, <1>3, <1>4 DEF AtomicInv, OneWrite, OneTarget, InOrder, Faithful
<1> QED
  BY <1>1, <1>2, <1>5, OthersUntouched

LEMMA CalledNext ==
  ASSUME TypeOK, Called, [Next]_vars
  PROVE  Called'
<1>1. ASSUME NEW t \in Tx, NEW o, NEW c \in Op, NEW req, Begin(t, o, c, req) PROVE Called'
  BY <1>1 DEF Begin, Called, TypeOK
<1>2. ASSUME NEW t \in Tx, UpdateDocument(t) \/ DeleteDocument(t) \/ SetProperties(t) \/ DeleteProperties(t)
      PROVE  Called'
  BY <1>1, <1>2 DEF UpdateDocument, DeleteDocument, SetProperties, DeleteProperties, Op, Upserts
<1>3. ASSUME NEW t \in Tx, UpsertUser(t) \/ UpsertRow(t) \/ DeleteRow(t) \/ Reserve(t) \/ NothingToLog(t)
      PROVE  Called'
  <2>1. op' = op /\ pc[t] # "idle" /\ \A u \in Tx \ {t} : pc'[u] = pc[u]
    BY <1>3 DEF UpsertUser, UpsertRow, DeleteRow, Write, Reserve, NothingToLog, TypeOK
  <2> QED
    BY <2>1 DEF Called
<1>4. ASSUME NEW t \in Tx, End(t) PROVE Called'
  BY <1>4 DEF End, Called, TypeOK
<1>5. CASE UNCHANGED vars
  BY <1>5 DEF vars, txVars, Called
<1> QED
  BY <1>2, <1>3, <1>4, <1>5 DEF Next, Statement, Commit, Abort

LEMMA AtomicInvNext == AtomicInv /\ [Next]_vars => AtomicInv'
<1> SUFFICES ASSUME AtomicInv, [Next]_vars PROVE \A u \in Tx : OneWrite(u)'
  BY ExplainInvNext, LockInvNext, CalledNext DEF AtomicInv, LockInv, ExplainInv, LogInv
<1>0. TypeOK /\ LocksExclusive
  BY DEF AtomicInv, ExplainInv, LogInv
<1>1. ASSUME NEW t \in Tx, UpdateDocument(t) \/ DeleteDocument(t)
      PROVE  \A u \in Tx : OneWrite(u)'
  <2>1. PICK o \in Owner, k \in Doc, c \in {"UpdateDocument", "DeleteDocument"} :
           Begin(t, o, c, OneRow(k))
    BY <1>1 DEF UpdateDocument, DeleteDocument, DocsOf
  <2>2. OneRow(k) \in [Row -> Nat] /\ c \in Op
    BY OneRowType DEF Op, Upserts
  <2> QED
    BY <2>1, <2>2, BeginIsAtomic
<1>2. ASSUME NEW t \in Tx, SetProperties(t) \/ DeleteProperties(t)
      PROVE  \A u \in Tx : OneWrite(u)'
  <2>1. PICK o \in Owner, c \in {"SetProperties", "DeleteProperties"} :
           \E rq \in [PropsOf(o) -> 0..MaxRepeat] : Begin(t, o, c, Request(rq))
    BY <1>2 DEF SetProperties, DeleteProperties
  <2> PICK rq \in [PropsOf(o) -> 0..MaxRepeat] : Begin(t, o, c, Request(rq))
    BY <2>1
  <2>2. /\ Request(rq) \in [Row -> Nat] /\ c \in Op
        /\ \A k \in Row : Request(rq)[k] > 0 => k \in PropsOf(o)
    BY RequestType DEF Request, Op, Upserts
  <2> QED
    BY <2>1, <2>2, BeginIsAtomic
<1>3. ASSUME NEW t \in Tx, UpsertRow(t) PROVE \A u \in Tx : OneWrite(u)'
  BY <1>3, WriteIsAtomic DEF UpsertRow
<1>4. ASSUME NEW t \in Tx, DeleteRow(t) PROVE \A u \in Tx : OneWrite(u)'
  <2>1. PICK k \in NextRows(t) :
          \/ Current(t, k) > 0 /\ Free(t, k) /\ Write(t, k, 0, "delete")
          \/ /\ todo' = [todo EXCEPT ![t][k] = @ - 1]
             /\ UNCHANGED <<tables, pc, op, sub, held, pending, ev, base>>
    BY <1>4 DEF DeleteRow
  <2>2. pc[t] = "rows" /\ op[t] \notin Upserts /\ k \in Left(t)
    BY <1>4 DEF DeleteRow, NextRows
  <2> QED
    BY <2>1, <2>2, WriteIsAtomic, SkipIsAtomic
<1>5. ASSUME NEW t \in Tx, Commit(t) \/ Abort(t) PROVE \A u \in Tx : OneWrite(u)'
  <2>1. End(t)
    BY <1>5 DEF Commit, Abort
  <2>2. ASSUME NEW u \in Tx \ {t} PROVE OneWrite(u)'
    <3>1. /\ ev'[u] = ev[u] /\ op'[u] = op[u] /\ pending'[u] = pending[u] /\ base'[u] = base[u]
          /\ held'[u] = held[u] /\ todo'[u] = todo[u]
      BY <1>0, <2>1 DEF End, TypeOK
    <3>2. \A k \in held[u] \cap Row : rows'[k] = rows[k]
      BY <1>0, <1>5 DEF Commit, Abort, tables, Current, LocksExclusive, TypeOK
    <3> QED
      BY <3>1, <3>2, OthersUntouched
  <2> QED
    BY <2>1, <2>2, EndIsAtomic
<1>6. CASE UNCHANGED vars
  <2>1. UNCHANGED <<rows, op, todo, held, pending, ev, base>>
    BY <1>6 DEF vars, tables, txVars
  <2> QED
    BY <2>1, OthersUntouched
<1> QED
  BY <1>1, <1>2, <1>3, <1>4, <1>5, <1>6, ReserveIsAtomic DEF Next, Statement

LEMMA AtomicInvInit == Init => AtomicInv
<1> SUFFICES ASSUME Init PROVE AtomicInv
  OBVIOUS
<1>1. ASSUME NEW t \in Tx PROVE OneWrite(t)
  <2>1. Len(ev[t]) = 0 /\ op[t] = "none" /\ held[t] = {}
    BY DEF Init
  <2> QED
    BY <2>1 DEF OneWrite, OneTarget, InOrder, Faithful, HasRoom
<1> QED
  BY <1>1, ExplainInvInit, LockInvInit DEF AtomicInv, LockInv, Called, Init

-----------------------------------------------------------------------------
(* The writes are atomic *)

\* The history is the log in the order of its ids, and a commit appends the
\* events of its transaction.
LEMMA CommitAppends ==
  ASSUME AtomicInv, NEW t \in Tx, Commit(t)
  PROVE  /\ History \in Seq(Event)
         /\ History' = History \o ev[t]
<1> DEFINE n == Len(ev[t])
           Logged(i) == [id |-> counter + i, row |-> ev[t][i].row,
                         type |-> ev[t][i].type, version |-> ev[t][i].version]
<1>1. /\ counter \in Nat /\ n \in Nat /\ ev[t] \in Seq(Event) /\ log \subseteq Entry
      /\ GaplessLog /\ GaplessLog' /\ log' = log \cup EntriesOf(t)
  BY CommitContinuesLog DEF AtomicInv, ExplainInv, LogInv, TypeOK
<1>2. counter' = counter + n /\ EntriesOf(t) = {Logged(i) : i \in 1..n}
  <2>1. CASE Counter \in held[t]
    BY <2>1 DEF AtomicInv, ExplainInv, LogInv, CounterFresh, Commit, EntriesOf, EntryId
  <2>2. CASE Counter \notin held[t]
    <3>1. n = 0 /\ counter' = counter
      BY <2>2 DEF AtomicInv, ExplainInv, LogInv, CounterFresh, Commit
    <3> QED
      BY <1>1, <3>1 DEF EntriesOf
  <2> QED
    BY <2>1, <2>2
<1>3. ASSUME NEW i \in 1..counter
      PROVE  /\ (CHOOSE e \in log : e.id = i) \in log
             /\ (CHOOSE e \in log : e.id = i).id = i
             /\ (CHOOSE e \in log' : e.id = i) = (CHOOSE e \in log : e.id = i)
  <2>1. \E e \in log : e.id = i
    BY <1>1 DEF GaplessLog
  <2> DEFINE c == CHOOSE e \in log : e.id = i
             d == CHOOSE e \in log' : e.id = i
  <2>2. c \in log /\ c.id = i
    BY <2>1
  <2>3. d \in log' /\ d.id = i
    BY <1>1, <2>2
  <2>4. c = d
    BY <1>1, <2>2, <2>3 DEF GaplessLog
  <2> QED
    BY <2>2, <2>4
<1>4. ASSUME NEW i \in 1..n
      PROVE  (CHOOSE e \in log' : e.id = counter + i) = Logged(i)
  <2> DEFINE d == CHOOSE e \in log' : e.id = counter + i
  <2>1. Logged(i) \in log' /\ Logged(i).id = counter + i
    BY <1>1, <1>2
  <2>2. d \in log' /\ d.id = counter + i
    BY <2>1
  <2> QED
    BY <1>1, <2>1, <2>2 DEF GaplessLog
<1>5. History \in Seq(Event) /\ Len(History) = counter
  <2>1. \A i \in 1..counter : EventOf(CHOOSE e \in log : e.id = i) \in Event
    BY <1>1, <1>3 DEF EventOf, Entry, Event
  <2> QED
    BY <1>1, <2>1 DEF History
<1>6. /\ History' = [i \in 1..(counter + n) |-> EventOf(CHOOSE e \in log' : e.id = i)]
  BY <1>2 DEF History
<1>7. ASSUME NEW i \in 1..(counter + n)
      PROVE  EventOf(CHOOSE e \in log' : e.id = i) = (History \o ev[t])[i]
  <2>1. CASE i \in 1..counter
    <3>1. History[i] = EventOf(CHOOSE e \in log : e.id = i)
      BY <2>1 DEF History
    <3>2. (History \o ev[t])[i] = History[i]
      BY <1>1, <1>5, <2>1
    <3> QED
      BY <1>3, <2>1, <3>1, <3>2
  <2>2. CASE i \notin 1..counter
    <3>1. PICK j \in 1..n : i = counter + j
      <4>1. i \in Nat /\ i > counter /\ i <= counter + n
        BY <1>1, <2>2
      <4>2. i - counter \in 1..n /\ i = counter + (i - counter)
        BY <1>1, <4>1
      <4> QED
        BY <4>2
    <3>2. (History \o ev[t])[i] = ev[t][j]
      BY <1>1, <1>5, <3>1
    <3>3. ev[t][j] = [row |-> ev[t][j].row, type |-> ev[t][j].type, version |-> ev[t][j].version]
      <4>1. ev[t][j] \in Event
        BY <1>1
      <4> QED
        BY <4>1 DEF Event
    <3>4. (CHOOSE e \in log' : e.id = i) = Logged(j)
      BY <1>4, <3>1
    <3>5. EventOf(Logged(j)) = ev[t][j]
      BY <3>3 DEF EventOf
    <3> QED
      BY <3>2, <3>4, <3>5
  <2> QED
    BY <2>1, <2>2
<1>8. (History \o ev[t]) \in Seq(Event) /\ Len(History \o ev[t]) = counter + n
  BY <1>1, <1>5
<1>9. History \o ev[t] = [i \in 1..(counter + n) |-> (History \o ev[t])[i]]
  BY <1>8
<1> QED
  BY <1>5, <1>6, <1>7, <1>9

\* A commit changes the rows that it has events for, and no others.
LEMMA CommitWrites ==
  ASSUME AtomicInv, NEW t \in Tx, Commit(t)
  PROVE  rows' = [k \in Row |-> IF \E i \in 1..Len(ev[t]) : ev[t][i].row = k
                                 THEN pending[t][k] ELSE rows[k]]
<1>1. \A k \in Row : k \in held[t] <=> \E i \in 1..Len(ev[t]) : ev[t][i].row = k
  BY DEF AtomicInv, ExplainInv, EventsExplain, Accounted
<1> QED
  BY <1>1 DEF Commit, Current

LEMMA DocumentStep ==
  ASSUME AtomicInv, NEW t \in Tx, Commit(t), ev[t] # <<>>,
         op[t] \in {"UpdateDocument", "DeleteDocument"}
  PROVE  Promise!Next
<1> DEFINE e == ev[t][1]
<1>1. /\ ev[t] \in Seq(Event) /\ Len(ev[t]) \in Nat /\ Len(ev[t]) > 0
      /\ todo[t] \in [Row -> Nat] /\ rows \in [Row -> Nat]
  BY DEF AtomicInv, ExplainInv, LogInv, TypeOK
<1>2. PICK k \in Doc : /\ todo[t][k] + Len(ev[t]) <= 1
                       /\ \A i \in 1..Len(ev[t]) : ev[t][i].row = k
  BY DEF AtomicInv, OneWrite, OneTarget
<1>3. Len(ev[t]) = 1 /\ e.row = k /\ k \in Row /\ k \in held[t]
  <2>1. k \in Row /\ todo[t][k] \in Nat
    BY <1>1 DEF Row
  <2>2. Len(ev[t]) = 1
    <3> DEFINE n == Len(ev[t])
               m == todo[t][k]
    <3>1. n \in Nat /\ n > 0 /\ m \in Nat /\ m + n <= 1
      BY <1>1, <1>2, <2>1
    <3> HIDE DEF n, m
    <3>2. n = 1
      BY <3>1
    <3> QED
      BY <3>2 DEF n
  <2> QED
    BY <1>2, <2>1, <2>2, EventRowsHeld
<1>4. ev[t] = <<e>>
  BY <1>1, <1>3
<1>5. History \in Seq(Event) /\ e \in Event /\ History' = Append(History, e)
  <2>1. e \in Event
    BY <1>1, <1>3
  <2> QED
    BY <1>4, <2>1, CommitAppends
<1>6. rows' = [rows EXCEPT ![k] = pending[t][k]]
  <2>1. \A j \in Row : (\E i \in 1..Len(ev[t]) : ev[t][i].row = j) <=> j = k
    BY <1>2, <1>3
  <2>2. rows' = [j \in Row |-> IF j = k THEN pending[t][k] ELSE rows[j]]
    BY <2>1, CommitWrites
  <2> QED
    BY <1>1, <2>2
<1>7. CASE op[t] = "UpdateDocument"
  <2>1. pending[t][k] = rows[k] + 1 /\ e = Promise!Changed("update", k, rows[k] + 1)
    BY <1>3, <1>7 DEF AtomicInv, OneWrite, Faithful, Upserts
  <2>2. Promise!PutDocument
    BY <1>5, <1>6, <2>1 DEF Promise!PutDocument
  <2> QED
    BY <2>2 DEF Promise!Next
<1>8. CASE op[t] = "DeleteDocument"
  <2>1. pending[t][k] = 0 /\ rows[k] > 0 /\ e = Promise!Changed("delete", k, 0)
    BY <1>3, <1>8 DEF AtomicInv, OneWrite, Faithful, Upserts
  <2>2. Promise!DropDocument
    BY <1>5, <1>6, <2>1 DEF Promise!DropDocument
  <2> QED
    BY <2>2 DEF Promise!Next
<1> QED
  BY <1>7, <1>8

LEMMA PropertiesStep ==
  ASSUME AtomicInv, NEW t \in Tx, Commit(t), ev[t] # <<>>,
         op[t] \in {"SetProperties", "DeleteProperties"}
  PROVE  Promise!Next
<1> DEFINE n  == Len(ev[t])
           ks == [i \in 1..n |-> ev[t][i].row]
<1>1. ev[t] \in Seq(Event) /\ n \in Nat /\ n > 0 /\ rows \in [Row -> Nat] /\ base[t] \in Nat
  BY DEF AtomicInv, ExplainInv, LogInv, TypeOK
<1>2. PICK o \in Owner : \A i \in 1..n : ev[t][i].row \in PropsOf(o)
  BY DEF AtomicInv, OneWrite, OneTarget
<1>3. ks \in [1..n -> Prop] /\ Len(ks) = n /\ ks # <<>>
  BY <1>1, <1>2 DEF PropsOf
<1>4. \A i \in 1..n : ks[i] = ev[t][i].row /\ ks[i] \notin Doc /\ ks[i] \in held[t] \cap Row
  BY <1>2, RowAssumption, EventRowsHeld DEF PropsOf
<1>5. Promise!OneRequest(ks)
  BY <1>2, <1>3, <1>4 DEF Promise!OneRequest, PropsOf, AtomicInv, OneWrite, InOrder
<1>6. ks \in Batches
  <2>1. Counter \in held[t]
    BY DEF Commit, AtomicInv, ExplainInv, LogInv, CounterFresh
  <2>2. base[t] + n <= MaxId
    BY <2>1 DEF AtomicInv, OneWrite, HasRoom
  <2>3. n \in 1..MaxId
    BY <1>1, <2>2, BoundAssumption
  <2> QED
    BY <1>3, <1>5, <2>3, BatchesAssumption
<1>7. \A k \in Row : (\E i \in 1..Len(ks) : ks[i] = k) <=> (\E i \in 1..n : ev[t][i].row = k)
  BY <1>3, <1>4
<1>8. ev[t] = [i \in 1..n |-> ev[t][i]]
  BY <1>1
<1>0. History' = History \o ev[t]
  BY CommitAppends
<1>9. CASE op[t] = "SetProperties"
  <2>1. \A i \in 1..n : ev[t][i] = Promise!Changed("update", ks[i], 0) /\ pending[t][ks[i]] = 1
    BY <1>4, <1>9 DEF AtomicInv, OneWrite, Faithful, Upserts
  <2>2. ev[t] = [i \in 1..Len(ks) |-> Promise!Changed("update", ks[i], 0)]
    <3>1. [i \in 1..n |-> ev[t][i]] = [i \in 1..n |-> Promise!Changed("update", ks[i], 0)]
      BY <2>1
    <3> QED
      BY <1>3, <1>8, <3>1
  <2>3. rows' = [k \in Doc \cup Prop |-> IF \E i \in 1..Len(ks) : ks[i] = k THEN 1 ELSE rows[k]]
    <3>1. \A k \in Row : (\E i \in 1..n : ev[t][i].row = k) => pending[t][k] = 1
      BY <1>4, <2>1
    <3>2. rows' = [k \in Row |-> IF \E i \in 1..Len(ks) : ks[i] = k THEN 1 ELSE rows[k]]
      BY <1>7, <3>1, CommitWrites
    <3> QED
      BY <3>2 DEF Row
  <2>4. Promise!PutProperties
    BY <1>0, <1>3, <1>5, <1>6, <2>2, <2>3 DEF Promise!PutProperties
  <2> QED
    BY <2>4 DEF Promise!Next
<1>10. CASE op[t] = "DeleteProperties"
  <2>1. \A i \in 1..n : /\ ev[t][i] = Promise!Changed("delete", ks[i], 0)
                        /\ pending[t][ks[i]] = 0 /\ rows[ks[i]] > 0
    BY <1>4, <1>10 DEF AtomicInv, OneWrite, Faithful, Upserts
  <2>2. ev[t] = [i \in 1..Len(ks) |-> Promise!Changed("delete", ks[i], 0)]
    <3>1. [i \in 1..n |-> ev[t][i]] = [i \in 1..n |-> Promise!Changed("delete", ks[i], 0)]
      BY <2>1
    <3> QED
      BY <1>3, <1>8, <3>1
  <2>3. rows' = [k \in Doc \cup Prop |-> IF \E i \in 1..Len(ks) : ks[i] = k THEN 0 ELSE rows[k]]
    <3>1. \A k \in Row : (\E i \in 1..n : ev[t][i].row = k) => pending[t][k] = 0
      BY <1>4, <2>1
    <3>2. rows' = [k \in Row |-> IF \E i \in 1..Len(ks) : ks[i] = k THEN 0 ELSE rows[k]]
      BY <1>7, <3>1, CommitWrites
    <3> QED
      BY <3>2 DEF Row
  <2>4. \A i \in 1..Len(ks) : \A j \in 1..(i-1) : ks[j] # ks[i]
    <3>1. \A i, j \in 1..n : j < i => ev[t][j].row # ev[t][i].row
      BY <1>10 DEF AtomicInv, OneWrite, InOrder, Upserts
    <3> HIDE DEF n, ks
    <3>2. \A i \in 1..n : \A j \in 1..(i-1) : j \in 1..n /\ j < i
      BY <1>1
    <3> QED
      BY <1>3, <1>4, <3>1, <3>2
  <2>5. Promise!DropProperties
    BY <1>0, <1>3, <1>5, <1>6, <2>1, <2>2, <2>3, <2>4 DEF Promise!DropProperties
  <2> QED
    BY <2>5 DEF Promise!Next
<1> QED
  BY <1>9, <1>10

\* A commit that has nothing to log changes nothing.
LEMMA EmptyCommit ==
  ASSUME AtomicInv, NEW t \in Tx, Commit(t), ev[t] = <<>>
  PROVE  UNCHANGED <<rows, History>>
<1>1. Len(ev[t]) = 0 /\ rows \in [Row -> Nat]
  BY DEF AtomicInv, ExplainInv, LogInv, TypeOK
<1>2. rows' = rows
  BY <1>1, CommitWrites
<1>3. History' = History
  BY CommitAppends
<1> QED
  BY <1>2, <1>3

\* The settings store implements SettingsLog: a commit is one atomic write that
\* is appended to the log, and everything else is invisible.
THEOREM SettingsStoreRefinesLog == Spec => WritesAreAtomic
<1>1. Init => Promise!Init
  <2> SUFFICES ASSUME Init PROVE Promise!Init
    OBVIOUS
  <2>1. History = <<>>
    BY DEF Init, History
  <2> QED
    BY <2>1 DEF Init, Promise!Init, NoRows, Row
<1>2. AtomicInv /\ [Next]_vars => [Promise!Next]_<<rows, History>>
  <2> SUFFICES ASSUME AtomicInv, [Next]_vars
               PROVE  Promise!Next \/ UNCHANGED <<rows, History>>
    OBVIOUS
  <2>1. ASSUME NEW t \in Tx, Commit(t) PROVE Promise!Next \/ UNCHANGED <<rows, History>>
    <3>1. op[t] \in Op
      BY <2>1 DEF Commit, AtomicInv, Called
    <3> QED
      BY <2>1, <3>1, DocumentStep, PropertiesStep, EmptyCommit DEF Op, Upserts
  <2>2. ASSUME NEW t \in Tx, Statement(t) PROVE UNCHANGED tables
    BY <2>2 DEF Statement, UpdateDocument, DeleteDocument, SetProperties,
       DeleteProperties, Begin, UpsertUser, UpsertRow, DeleteRow, Write, Reserve,
       NothingToLog, Abort, tables
  <2>3. ASSUME UNCHANGED tables PROVE UNCHANGED <<rows, History>>
    BY <2>3 DEF tables, History
  <2> QED
    BY <2>1, <2>2, <2>3 DEF Next, vars
<1>3. Spec => []AtomicInv
  BY AtomicInvInit, AtomicInvNext, PTL DEF Spec
<1> QED
  BY <1>1, <1>2, <1>3, PTL DEF Spec, WritesAreAtomic, Promise!Spec
==============================================================================
