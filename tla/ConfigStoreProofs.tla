-------------------------- MODULE ConfigStoreProofs --------------------------
(***************************************************************************)
(* Proofs about ConfigStore, for any number of clients, schemas and        *)
(* generations: registration is idempotent, activation is honoured and     *)
(* exclusive, and every commit is one step of ActiveGeneration.            *)
(***************************************************************************)
EXTENDS ConfigStoreRefinement, FiniteSetTheorems, SequenceTheorems, TLAPS

\* Statements from the one on that follows Take: the generation is known.
Taken == {"deactivate", "deactivating", "activate", "index", "commit"}

Step == {"idle", "schema", "ensure", "lookup", "insert", "find"} \cup Taken

AckType == [list : {<<>>} \cup Requests, id : 0..MaxGen, activate : BOOLEAN, honoured : BOOLEAN]

CallType == [pc : Step, list : {<<>>} \cup Requests, activate : BOOLEAN, attempt : 0..2,
             todo : Seq(Item), added : SUBSET Stored, id : 0..MaxGen, new : BOOLEAN,
             target : SUBSET Id, dead : SUBSET Id, live : BOOLEAN, seen : SUBSET Id,
             ack : AckType]

Row == [id : Id, identity : SUBSET Schema, refs : Seq(Schema), active : BOOLEAN]

\* The keys and references of the two tables.
TablesOK ==
    /\ schemas \subseteq Stored /\ gens \subseteq Row
    /\ drawn \in 0..MaxGen /\ sent \in 0..MaxSent
    /\ \A r, s \in schemas : r.schema = s.schema => r = s
    /\ \A g, h \in gens : g.id = h.id \/ g.identity = h.identity => g = h
    /\ \A g \in gens :
          /\ g.id <= drawn
          /\ \E list \in Requests : g.refs = RefsOf(list) /\ g.identity = Identity(list)
          /\ \A i \in DOMAIN g.refs : \E r \in schemas : r.schema = g.refs[i]
    /\ \A g, h \in gens : g.active /\ h.active => g = h

HasRow(id, identity) == \E g \in gens : g.id = id /\ g.identity = identity

\* ensureConfigSchemas: what is left to do, and what has been inserted, which
\* nobody else can insert.
Ensuring(c) ==
    /\ c.pc \in {"schema", "ensure", "lookup", "insert"} => c.list # <<>>
    /\ c.pc = "find" => c.list = <<>>
    /\ c.pc \in {"schema", "ensure"} <=> c.todo # <<>>
    /\ c.pc = "ensure" => Head(c.todo).spec # Omitted
    /\ \A i \in DOMAIN c.list :
          \/ \E r \in schemas \cup c.added : r.schema = c.list[i].schema
          \/ \E j \in DOMAIN c.todo : c.todo[j].schema = c.list[i].schema
    /\ \A i, j \in DOMAIN c.todo : c.todo[i].schema = c.todo[j].schema => i = j
    /\ \A r \in c.added :
          /\ \A j \in DOMAIN c.todo : c.todo[j].schema # r.schema
          /\ \A s \in c.added : r.schema = s.schema => r = s
          /\ \A s \in schemas : r.schema # s.schema

\* The generation a transaction has taken is in the table, or it has inserted
\* it, with an id and an identity that nobody else has.
Knowing(c) ==
    /\ c.new => /\ c.pc \in Taken /\ c.list # <<>> /\ c.id \in Id
                /\ \A g \in gens : g.id # c.id /\ g.identity # Identity(c.list)
    /\ c.pc \in Taken => \/ c.new
                         \/ \E g \in gens : /\ g.id = c.id
                                            /\ c.list # <<>> => g.identity = Identity(c.list)
    /\ c.attempt = 2 => c.pc # "insert" /\ \E g \in gens : g.identity = Identity(c.list)

\* Who is about to commit an activation leaves nothing else active, and what
\* was active while a call ran is recorded.
Activating(c) ==
    /\ c.live => c.pc \in {"index", "commit"}
    /\ c.pc = "index" => c.live
    /\ c.pc \in Taken \/ c.dead = {}
    /\ c.pc = "commit" => c.live \/ c.dead = {}
    /\ c.pc = "commit" /\ c.live => Active \subseteq c.dead \cup {c.id}
    /\ c.activate /\ c.pc # "idle" => Active \subseteq c.seen
    /\ c.activate /\ c.pc = "commit" => c.live \/ c.id \in c.seen

Answered(a) ==
    /\ a.list # <<>> => HasRow(a.id, Identity(a.list))
    /\ a.honoured

CallOK(c) == Ensuring(c) /\ Knowing(c) /\ Activating(c) /\ Answered(c.ack)

\* Two transactions never insert the same schema or identity, draw the same id,
\* or are about to commit an activation.
Apart(c, d) ==
    /\ \A r \in c.added, s \in d.added : r.schema # s.schema
    /\ c.new /\ d.new => c.id # d.id /\ Identity(c.list) # Identity(d.list)
    /\ ~(c.live /\ c.pc = "commit" /\ d.live /\ d.pc = "commit")

\* The inductive invariant: the tables, each call, and each two calls.
ConfigInv ==
    /\ TablesOK /\ call \in [Client -> CallType]
    /\ \A t \in Client : CallOK(call[t]) /\ (call[t].new => call[t].id <= drawn)
    /\ \A t, u \in Client : t # u => Apart(call[t], call[u])

-----------------------------------------------------------------------------
(* Requests, and a call before and after a step *)

LEMMA RequestIs ==
  ASSUME NEW l \in Requests
  PROVE  /\ l \in Seq(Item) /\ l # <<>> /\ Len(l) \in Nat /\ Len(l) > 0
         /\ Len(l) \in 1..Cardinality(Schema) /\ DOMAIN l = 1..Len(l)
         /\ \A i, j \in DOMAIN l : l[i].schema = l[j].schema => i = j
<1>1. PICK n \in 1..Cardinality(Schema) : l \in [1..n -> Item]
  BY ConfigAssumption DEF Distinct
<1>2. \A i, j \in DOMAIN l : l[i].schema = l[j].schema => i = j
  BY ConfigAssumption DEF Distinct
<1>3. n \in Nat /\ n > 0
  OBVIOUS
<1> QED
  BY <1>1, <1>2, <1>3

LEMMA IdleOK ==
  Idle \in CallType /\ CallOK(Idle) /\ ~Idle.new /\ \A c : Apart(Idle, c)
<1>1. NoAck \in AckType /\ NoAck.list = <<>> /\ NoAck.honoured
  BY ConfigAssumption DEF NoAck, AckType
<1>2. /\ Idle.pc = "idle" /\ Idle.list = <<>> /\ Idle.todo = <<>> /\ Idle.added = {}
      /\ Idle.new = FALSE /\ Idle.live = FALSE /\ Idle.dead = {} /\ Idle.attempt = 0
      /\ Idle.activate = FALSE /\ Idle.ack = NoAck
  BY DEF Idle
<1>3. Idle \in CallType
  <2>1. <<>> \in Seq(Item) /\ 0 \in 0..MaxGen /\ 0 \in 0..2 /\ "idle" \in Step
    BY ConfigAssumption DEF Step
  <2> QED
    BY <1>1, <2>1 DEF Idle, CallType
<1>4. CallOK(Idle)
  <2>1. DOMAIN <<>> = {}
    OBVIOUS
  <2> QED
    BY <1>1, <1>2, <2>1 DEF CallOK, Ensuring, Knowing, Activating, Answered, Taken
<1> QED
  BY <1>2, <1>3, <1>4 DEF Apart

\* A statement of t that shows nothing to others.
LEMMA StatementInv ==
  ASSUME ConfigInv, NEW t \in Client, NEW STATE d, d \in CallType,
         call' = [call EXCEPT ![t] = d],
         UNCHANGED <<schemas, gens, sent>>, drawn' \in 0..MaxGen, drawn <= drawn',
         CallOK(d), d.new => d.id <= drawn',
         \A u \in Client \ {t} : Apart(d, call[u])
  PROVE  ConfigInv'
<1>1. call' \in [Client -> CallType] /\ call'[t] = d /\ \A u \in Client \ {t} : call'[u] = call[u]
  BY DEF ConfigInv
<1>2. TablesOK'
  <2>1. drawn \in Nat /\ drawn' \in Nat /\ \A g \in gens : g.id \in Nat
    BY ConfigAssumption DEF ConfigInv, TablesOK, Row, Id
  <2>2. \A g \in gens : g.id <= drawn'
    BY <2>1 DEF ConfigInv, TablesOK
  <2> QED
    BY <2>2 DEF ConfigInv, TablesOK
<1>3. ASSUME NEW u \in Client PROVE CallOK(call[u])' /\ (call[u].new => call[u].id <= drawn)'
  <2>1. CallOK(call'[u])
    BY <1>1 DEF ConfigInv
  <2>2. CallOK(call[u])'
    BY <2>1 DEF CallOK, Ensuring, Knowing, Activating, Answered, Active, HasRow
  <2>3. call'[u].new => call'[u].id <= drawn'
    <3>1. CASE u = t
      BY <1>1, <3>1
    <3>2. CASE u # t
      <4>1. drawn \in Nat /\ drawn' \in Nat /\ call[u].id \in 0..MaxGen
        BY ConfigAssumption DEF ConfigInv, TablesOK, CallType
      <4> QED
        BY <1>1, <3>2, <4>1, ConfigAssumption DEF ConfigInv
    <3> QED
      BY <3>1, <3>2
  <2> QED
    BY <2>2, <2>3
<1>4. ASSUME NEW u \in Client, NEW v \in Client, u # v PROVE Apart(call[u], call[v])'
  <2>1. Apart(call'[u], call'[v])
    BY <1>1, <1>4 DEF ConfigInv, Apart
  <2> QED
    BY <2>1 DEF Apart
<1> QED
  BY <1>1, <1>2, <1>3, <1>4 DEF ConfigInv

\* The call ends without an answer.
LEMMA FailInv ==
  ASSUME ConfigInv, NEW t \in Client, Fail(t),
         UNCHANGED <<schemas, gens, sent>>, drawn' \in 0..MaxGen, drawn <= drawn'
  PROVE  ConfigInv'
BY IdleOK, StatementInv DEF Fail

LEMMA AttemptInv ==
  ASSUME ConfigInv, NEW t \in Client,
         NEW STATE list, list \in Requests, NEW STATE activate, activate \in BOOLEAN,
         NEW n \in {1, 2}, NEW STATE seen, seen \subseteq Id,
         Attempt(t, list, activate, n, seen), activate => Active \subseteq seen,
         n = 2 => \E g \in gens : g.identity = Identity(list),
         UNCHANGED <<schemas, gens, sent>>, drawn' \in 0..MaxGen, drawn <= drawn'
  PROVE  ConfigInv'
<1> DEFINE d == [Idle EXCEPT !.pc = "schema", !.list = list, !.todo = list,
                             !.activate = activate, !.attempt = n,
                             !.seen = IF activate THEN seen ELSE {}]
<1>1. list \in Seq(Item) /\ list # <<>> /\ \A i, j \in DOMAIN list : list[i].schema = list[j].schema => i = j
  BY RequestIs
<1>2. d \in CallType
  <2>1. "schema" \in Step /\ n \in 0..2 /\ (IF activate THEN seen ELSE {}) \in SUBSET Id
    BY DEF Step
  <2> QED
    BY <1>1, <2>1, IdleOK DEF CallType
<1>3. /\ d.pc = "schema" /\ d.list = list /\ d.todo = list /\ d.added = {}
      /\ d.new = FALSE /\ d.live = FALSE /\ d.dead = {} /\ d.attempt = n
      /\ d.activate = activate /\ d.seen = (IF activate THEN seen ELSE {}) /\ d.ack = NoAck
  BY DEF Idle
<1> HIDE DEF d
<1>4. Ensuring(d)
  BY <1>1, <1>3 DEF Ensuring
<1>5. Knowing(d) /\ Activating(d) /\ Answered(d.ack)
  BY <1>3 DEF Knowing, Activating, Answered, Taken, NoAck
<1>6. \A c : Apart(d, c)
  BY <1>3 DEF Apart
<1>7. call' = [call EXCEPT ![t] = d]
  BY DEF Attempt, d
<1> QED
  BY <1>2, <1>3, <1>4, <1>5, <1>6, <1>7, StatementInv DEF CallOK

-----------------------------------------------------------------------------
(* Registration *)

LEMMA ActiveIds ==
  ASSUME ConfigInv
  PROVE  Active \subseteq Id
BY DEF ConfigInv, TablesOK, Active, ActiveIn, Row

LEMMA RegisterInv ==
  ASSUME ConfigInv, NEW t \in Client, RegisterConfigGeneration(t)
  PROVE  ConfigInv'
<1>1. UNCHANGED <<schemas, gens, sent>> /\ drawn' \in 0..MaxGen /\ drawn <= drawn'
  BY ConfigAssumption DEF RegisterConfigGeneration, tables, ConfigInv, TablesOK
<1>2. PICK list \in Requests, activate \in BOOLEAN : Attempt(t, list, activate, 1, Active)
  BY DEF RegisterConfigGeneration
<1> QED
  BY <1>1, <1>2, ActiveIds, AttemptInv

LEMMA RetryInv ==
  ASSUME ConfigInv, NEW t \in Client, Retry(t), SameIdentity(t) # {}, call[t].pc = "insert",
         UNCHANGED <<schemas, gens, sent>>, drawn' \in 0..MaxGen, drawn <= drawn'
  PROVE  ConfigInv'
<1>1. CASE call[t].attempt = 1
  <2>1. call[t] \in CallType /\ CallOK(call[t])
    BY DEF ConfigInv
  <2>2. /\ call[t].list \in Requests /\ call[t].activate \in BOOLEAN /\ call[t].seen \subseteq Id
        /\ call[t].activate => Active \subseteq call[t].seen
    BY <2>1 DEF CallType, CallOK, Ensuring, Activating
  <2>3. \E g \in gens : g.identity = Identity(call[t].list)
    BY DEF SameIdentity
  <2>4. Attempt(t, call[t].list, call[t].activate, 2, call[t].seen)
    BY <1>1 DEF Retry
  <2> QED
    BY <2>2, <2>3, <2>4, AttemptInv
<1>2. CASE call[t].attempt # 1
  BY <1>2, FailInv DEF Retry
<1> QED
  BY <1>1, <1>2

\* The call goes on to statement l with everything else as it was.
LEMMA GotoInv ==
  ASSUME ConfigInv, NEW t \in Client, NEW l \in Step, Goto(t, l), UNCHANGED tables,
         \/ call[t].pc = "schema" /\ l = "ensure" /\ Head(call[t].todo).spec # Omitted
         \/ call[t].pc = "lookup" /\ l = "insert" /\ SameIdentity(t) = {}
         \/ /\ call[t].pc = "index" /\ l = "commit" /\ call[t].live
            /\ Active \subseteq call[t].dead \cup {call[t].id}
            /\ \A u \in Client \ {t} : ~(call[u].live /\ call[u].pc = "commit")
  PROVE  ConfigInv'
<1> DEFINE c == call[t]
           d == [c EXCEPT !.pc = l]
<1>1. c \in CallType /\ CallOK(c) /\ (c.new => c.id <= drawn) /\ \A u \in Client \ {t} : Apart(c, call[u])
  BY DEF ConfigInv
<1>2. /\ d \in CallType /\ d.pc = l /\ d.list = c.list /\ d.todo = c.todo /\ d.added = c.added
      /\ d.new = c.new /\ d.live = c.live /\ d.dead = c.dead /\ d.attempt = c.attempt
      /\ d.activate = c.activate /\ d.seen = c.seen /\ d.ack = c.ack /\ d.id = c.id
  BY <1>1 DEF CallType
<1>3. call' = [call EXCEPT ![t] = d]
  BY DEF Goto
<1> HIDE DEF c, d
<1>4. Ensuring(d)
  BY <1>1, <1>2 DEF CallOK, Ensuring, c
<1>5. Knowing(d)
  BY <1>1, <1>2 DEF CallOK, Knowing, c, Taken, SameIdentity
<1>6. Activating(d)
  BY <1>1, <1>2 DEF CallOK, Activating, c, Taken
<1>7. \A u \in Client \ {t} : Apart(d, call[u])
  BY <1>1, <1>2 DEF Apart, c
<1>8. UNCHANGED <<schemas, gens, sent>> /\ drawn' \in 0..MaxGen /\ drawn <= drawn'
  BY ConfigAssumption DEF tables, ConfigInv, TablesOK
<1>9. d.new => d.id <= drawn'
  BY <1>1, <1>2 DEF tables
<1>10. Answered(d.ack)
  BY <1>1, <1>2 DEF CallOK
<1> QED
  BY <1>2, <1>3, <1>4, <1>5, <1>6, <1>7, <1>8, <1>9, <1>10, StatementInv DEF CallOK

\* The next schema is stored, or has just been inserted by nobody else.
LEMMA NextSchemaInv ==
  ASSUME ConfigInv, NEW t \in Client, call[t].pc \in {"schema", "ensure"},
         NEW STATE rows, NextSchema(t, rows), UNCHANGED tables,
         rows \subseteq {Head(call[t].todo)} \cap Stored,
         \E r \in schemas \cup rows : r.schema = Head(call[t].todo).schema,
         \A r \in rows, s \in schemas : r.schema # s.schema,
         \A r \in rows, u \in Client \ {t} : \A s \in call[u].added : r.schema # s.schema
  PROVE  ConfigInv'
<1> DEFINE c == call[t]
           next == IF Len(c.todo) = 1 THEN "lookup" ELSE "schema"
           d == [c EXCEPT !.pc = next, !.todo = Tail(c.todo), !.added = c.added \cup rows]
<1>1. c \in CallType /\ CallOK(c) /\ (c.new => c.id <= drawn) /\ \A u \in Client \ {t} : Apart(c, call[u])
  BY DEF ConfigInv
<1>2. c.todo \in Seq(Item) /\ c.todo # <<>>
  BY <1>1 DEF CallOK, Ensuring, CallType
<1>3. /\ Tail(c.todo) \in Seq(Item)
      /\ Len(c.todo) = 1 <=> Tail(c.todo) = <<>>
      /\ \A j \in DOMAIN Tail(c.todo) : j + 1 \in DOMAIN c.todo /\ Tail(c.todo)[j] = c.todo[j + 1]
      /\ 1 \in DOMAIN c.todo /\ Head(c.todo) = c.todo[1]
      /\ \A j \in DOMAIN c.todo : j = 1 \/ \E i \in DOMAIN Tail(c.todo) : i + 1 = j
      /\ DOMAIN Tail(c.todo) \subseteq Nat \ {0}
  <2>1. Len(c.todo) \in Nat /\ Len(c.todo) > 0 /\ Len(Tail(c.todo)) = Len(c.todo) - 1
    BY <1>2
  <2>2. DOMAIN c.todo = 1..Len(c.todo) /\ DOMAIN Tail(c.todo) = 1..(Len(c.todo) - 1)
    BY <1>2, <2>1
  <2>3. ASSUME NEW j \in DOMAIN c.todo, j # 1 PROVE j - 1 \in DOMAIN Tail(c.todo) /\ (j - 1) + 1 = j
    BY <2>1, <2>2, <2>3
  <2>4. Len(c.todo) = 1 <=> Tail(c.todo) = <<>>
    <3> HIDE DEF c
    <3>1. Tail(c.todo) \in Seq(Item)
      BY <1>2
    <3>2. Len(Tail(c.todo)) = 0 <=> Tail(c.todo) = <<>>
      BY <3>1, EmptySeq
    <3> QED
      BY <2>1, <3>2
  <2>5. \A j \in DOMAIN Tail(c.todo) : j + 1 \in DOMAIN c.todo /\ Tail(c.todo)[j] = c.todo[j + 1]
    BY <1>2, <2>1, <2>2
  <2>6. 1 \in DOMAIN c.todo /\ Head(c.todo) = c.todo[1] /\ Tail(c.todo) \in Seq(Item)
    BY <1>2, <2>1, <2>2
  <2>7. DOMAIN Tail(c.todo) \subseteq Nat \ {0}
    BY <2>1, <2>2
  <2> HIDE DEF c
  <2> QED
    BY <2>3, <2>4, <2>5, <2>6, <2>7
<1>4. /\ d \in CallType /\ d.pc = next /\ d.list = c.list /\ d.todo = Tail(c.todo)
      /\ d.added = c.added \cup rows
      /\ d.new = c.new /\ d.live = c.live /\ d.dead = c.dead /\ d.attempt = c.attempt
      /\ d.activate = c.activate /\ d.seen = c.seen /\ d.ack = c.ack /\ d.id = c.id
  <2>1. next \in Step /\ c.added \cup rows \in SUBSET Stored
    BY <1>1 DEF CallType, Step
  <2> QED
    BY <1>1, <1>3, <2>1 DEF CallType
<1>5. call' = [call EXCEPT ![t] = d]
  BY DEF NextSchema
<1>6. /\ next \in {"lookup", "schema"}
      /\ next = "schema" <=> Tail(c.todo) # <<>>
      /\ c.pc \in {"schema", "ensure"}
  BY <1>3
<1> HIDE DEF c, d, next
<1>7. Ensuring(d)
  <2>1. \A i \in DOMAIN d.list :
          \/ \E r \in schemas \cup d.added : r.schema = d.list[i].schema
          \/ \E j \in DOMAIN d.todo : d.todo[j].schema = d.list[i].schema
    <3> TAKE i \in DOMAIN d.list
    <3>1. CASE \E r \in schemas \cup c.added : r.schema = c.list[i].schema
      BY <1>4, <3>1
    <3>2. CASE \E j \in DOMAIN c.todo : c.todo[j].schema = c.list[i].schema
      <4>1. PICK j \in DOMAIN c.todo : c.todo[j].schema = c.list[i].schema
        BY <3>2
      <4>2. CASE j = 1
        BY <1>3, <1>4, <4>1, <4>2 DEF c
      <4>3. CASE j # 1
        BY <1>3, <1>4, <4>1, <4>3
      <4> QED
        BY <4>2, <4>3
    <3> QED
      BY <1>1, <1>4, <3>1, <3>2 DEF CallOK, Ensuring
  <2>2. \A i, j \in DOMAIN d.todo : d.todo[i].schema = d.todo[j].schema => i = j
    <3> TAKE i, j \in DOMAIN d.todo
    <3>1. /\ i + 1 \in DOMAIN c.todo /\ j + 1 \in DOMAIN c.todo /\ i \in Nat /\ j \in Nat
          /\ d.todo[i] = c.todo[i + 1] /\ d.todo[j] = c.todo[j + 1]
      BY <1>3, <1>4
    <3>2. d.todo[i].schema = d.todo[j].schema => i + 1 = j + 1
      BY <1>1, <3>1 DEF CallOK, Ensuring
    <3> QED
      BY <3>1, <3>2
  <2>3. \A r \in d.added : \A j \in DOMAIN d.todo : d.todo[j].schema # r.schema
    <3> TAKE r \in d.added
    <3> TAKE j \in DOMAIN d.todo
    <3>1. j + 1 \in DOMAIN c.todo /\ j + 1 # 1 /\ d.todo[j] = c.todo[j + 1]
      BY <1>3, <1>4
    <3>2. CASE r \in c.added
      BY <1>1, <3>1, <3>2 DEF CallOK, Ensuring
    <3>3. CASE r \in rows
      BY <1>1, <1>3, <3>1, <3>3 DEF CallOK, Ensuring, c
    <3> QED
      BY <1>4, <3>2, <3>3
  <2>4. \A r, s \in d.added : r.schema = s.schema => r = s
    <3>1. \A r \in c.added, s \in rows : r.schema # s.schema
      BY <1>1, <1>3 DEF CallOK, Ensuring, c
    <3>2. \A r, s \in rows : r = s
      OBVIOUS
    <3> QED
      BY <1>1, <1>4, <3>1, <3>2 DEF CallOK, Ensuring
  <2>5. \A r \in d.added, s \in schemas : r.schema # s.schema
    BY <1>1, <1>4 DEF CallOK, Ensuring
  <2> QED
    BY <1>1, <1>4, <1>6, <2>1, <2>2, <2>3, <2>4, <2>5 DEF CallOK, Ensuring
<1>8. Knowing(d)
  BY <1>1, <1>4, <1>6 DEF CallOK, Knowing, Taken
<1>9. Activating(d)
  BY <1>1, <1>4, <1>6 DEF CallOK, Activating, Taken
<1>10. \A u \in Client \ {t} : Apart(d, call[u])
  BY <1>1, <1>4, <1>6 DEF Apart
<1>11. UNCHANGED <<schemas, gens, sent>> /\ drawn' \in 0..MaxGen /\ drawn <= drawn'
  BY ConfigAssumption DEF tables, ConfigInv, TablesOK
<1>12. d.new => d.id <= drawn'
  BY <1>1, <1>4 DEF tables
<1>13. Answered(d.ack)
  BY <1>1, <1>4 DEF CallOK
<1> QED
  BY <1>4, <1>5, <1>7, <1>8, <1>9, <1>10, <1>11, <1>12, <1>13, StatementInv DEF CallOK

\* What a call in its registration holds: items it has to store, no locks.
LEMMA Registering ==
  ASSUME ConfigInv, NEW t \in Client, call[t].pc \in {"schema", "ensure"}
  PROVE  Head(call[t].todo) \in Item
<1>1. call[t].todo \in Seq(Item) /\ call[t].todo # <<>>
  BY DEF ConfigInv, CallOK, Ensuring, CallType
<1> QED
  BY <1>1

LEMMA GetSchemaInv ==
  ASSUME ConfigInv, NEW t \in Client, GetSchema(t)
  PROVE  ConfigInv'
<1> DEFINE item == Head(call[t].todo)
<1>1. call[t].pc = "schema" /\ UNCHANGED tables
  BY DEF GetSchema
<1>2. CASE StoredAs(item) = {} /\ item.spec # Omitted /\ Goto(t, "ensure")
  BY <1>1, <1>2, GotoInv DEF Step
<1>3. CASE (\E r \in StoredAs(item) : Matches(item, r)) /\ NextSchema(t, {})
  <2>1. \E r \in schemas \cup {} : r.schema = item.schema
    BY <1>3 DEF StoredAs
  <2> QED
    BY <1>1, <1>3, <2>1, NextSchemaInv
<1>4. CASE Fail(t)
  BY <1>1, <1>4, ConfigAssumption, FailInv DEF tables, ConfigInv, TablesOK
<1> QED
  BY <1>2, <1>3, <1>4 DEF GetSchema

LEMMA EnsureSchemaInv ==
  ASSUME ConfigInv, NEW t \in Client, EnsureSchema(t)
  PROVE  ConfigInv'
<1> DEFINE item == Head(call[t].todo)
           rows == IF StoredAs(item) = {} THEN {item} ELSE {}
<1>1. /\ call[t].pc = "ensure" /\ UNCHANGED tables /\ ~Inserting(t, item)
      /\ NextSchema(t, rows)
  BY DEF EnsureSchema
<1>2. item \in Stored
  <2>1. item \in Item /\ item.spec # Omitted
    BY <1>1, Registering DEF ConfigInv, CallOK, Ensuring
  <2> QED
    BY <2>1 DEF Item, Stored
<1>3. \E r \in schemas \cup rows : r.schema = item.schema
  BY DEF StoredAs
<1>4. \A r \in rows, s \in schemas : r.schema # s.schema
  BY DEF StoredAs
<1>5. \A r \in rows, u \in Client \ {t} : \A s \in call[u].added : r.schema # s.schema
  BY <1>1 DEF Inserting
<1>6. rows \subseteq {item} \cap Stored
  BY <1>2
<1> HIDE DEF rows
<1> QED
  BY <1>1, <1>3, <1>4, <1>5, <1>6, NextSchemaInv

\* The call takes a generation that is there, or one it has just inserted.
LEMMA TakeInv ==
  ASSUME ConfigInv, NEW t \in Client, call[t].pc \in {"lookup", "insert", "find"},
         NEW STATE id, id \in Id, NEW new \in BOOLEAN, NEW STATE active, active \in BOOLEAN,
         Take(t, id, new, active), active => id \in Active,
         UNCHANGED <<schemas, gens, sent>>, drawn' \in 0..MaxGen, drawn <= drawn',
         new => /\ call[t].list # <<>> /\ drawn < id /\ id <= drawn'
                /\ \A g \in gens : g.id # id /\ g.identity # Identity(call[t].list)
                /\ \A u \in Client \ {t} :
                      call[u].new => Identity(call[u].list) # Identity(call[t].list),
         ~new => \E g \in gens : /\ g.id = id
                                 /\ call[t].list # <<>> => g.identity = Identity(call[t].list)
  PROVE  ConfigInv'
<1> DEFINE c == call[t]
           next == IF c.activate /\ ~active THEN "deactivate" ELSE "commit"
           d == [c EXCEPT !.id = id, !.new = new, !.pc = next]
<1>1. c \in CallType /\ CallOK(c) /\ (c.new => c.id <= drawn) /\ \A u \in Client \ {t} : Apart(c, call[u])
  BY DEF ConfigInv
<1>2. /\ d \in CallType /\ d.pc = next /\ d.list = c.list /\ d.todo = c.todo
      /\ d.added = c.added /\ d.id = id
      /\ d.new = new /\ d.live = c.live /\ d.dead = c.dead /\ d.attempt = c.attempt
      /\ d.activate = c.activate /\ d.seen = c.seen /\ d.ack = c.ack
  <2>1. next \in Step /\ id \in 0..MaxGen
    BY DEF Step, Taken, Id
  <2> QED
    BY <1>1, <2>1 DEF CallType
<1>3. call' = [call EXCEPT ![t] = d]
  BY DEF Take
<1>4. /\ next \in {"deactivate", "commit"}
      /\ next = "commit" /\ c.activate => active
  OBVIOUS
<1>5. c.pc \in {"lookup", "insert", "find"} /\ c.activate \in BOOLEAN
  BY <1>1 DEF CallType
<1> HIDE DEF d, next
<1>6. Ensuring(d)
  BY <1>1, <1>2, <1>4, <1>5 DEF CallOK, Ensuring
<1>7. Knowing(d)
  BY <1>1, <1>2, <1>4, <1>5 DEF CallOK, Knowing, Taken
<1>8. Activating(d)
  <2>1. c.live = FALSE /\ c.dead = {}
    BY <1>1, <1>5 DEF CallOK, Activating, Taken, CallType
  <2>2. c.activate => Active \subseteq c.seen
    BY <1>1, <1>5 DEF CallOK, Activating
  <2> HIDE DEF c
  <2> QED
    BY <1>2, <1>4, <2>1, <2>2 DEF Activating, Taken
<1>9. \A u \in Client \ {t} : Apart(d, call[u])
  <2> TAKE u \in Client \ {t}
  <2>1. new /\ call[u].new => call[u].id # id
    <3>1. call[u] \in CallType /\ (call[u].new => call[u].id <= drawn) /\ drawn \in 0..MaxGen
      BY DEF ConfigInv, TablesOK
    <3>2. call[u].id \in Nat /\ drawn \in Nat /\ id \in Nat
      BY <3>1, ConfigAssumption DEF CallType, Id
    <3> QED
      BY <3>1, <3>2
  <2>2. c.live = FALSE
    BY <1>1, <1>5 DEF CallOK, Activating, CallType
  <2> QED
    BY <1>1, <1>2, <2>1, <2>2 DEF Apart
<1>10. d.new => d.id <= drawn'
  BY <1>2
<1>11. Answered(d.ack)
  BY <1>1, <1>2 DEF CallOK
<1> QED
  BY <1>2, <1>3, <1>6, <1>7, <1>8, <1>9, <1>10, <1>11, StatementInv DEF CallOK

LEMMA LookupInv ==
  ASSUME ConfigInv, NEW t \in Client, Lookup(t)
  PROVE  ConfigInv'
<1>1. call[t].pc = "lookup" /\ UNCHANGED tables
  BY DEF Lookup
<1>2. CASE \E g \in SameIdentity(t) : Take(t, g.id, FALSE, g.active)
  <2>1. PICK g \in SameIdentity(t) : Take(t, g.id, FALSE, g.active)
    BY <1>2
  <2>2. g \in gens /\ g.identity = Identity(call[t].list)
    BY DEF SameIdentity
  <2>3. g.id \in Id /\ g.active \in BOOLEAN
    BY <2>2 DEF ConfigInv, TablesOK, Row
  <2>4. g.active => g.id \in Active
    BY <2>2 DEF Active, ActiveIn
  <2>5. drawn' \in 0..MaxGen /\ drawn <= drawn' /\ UNCHANGED <<schemas, gens, sent>>
    BY <1>1, ConfigAssumption DEF tables, ConfigInv, TablesOK
  <2> QED
    BY <1>1, <2>1, <2>2, <2>3, <2>4, <2>5, TakeInv
<1>3. CASE SameIdentity(t) = {} /\ Goto(t, "insert")
  BY <1>1, <1>3, GotoInv DEF Step
<1> QED
  BY <1>2, <1>3 DEF Lookup

LEMMA FindInv ==
  ASSUME ConfigInv, NEW t \in Client, Find(t)
  PROVE  ConfigInv'
<1>1. /\ call[t].pc = "find" /\ UNCHANGED <<schemas, gens, sent>>
      /\ drawn' \in 0..MaxGen /\ drawn <= drawn'
  BY ConfigAssumption DEF Find, tables, ConfigInv, TablesOK
<1>2. CASE \E g \in gens : g.id = call[t].id /\ Take(t, g.id, FALSE, g.active)
  <2>1. PICK g \in gens : g.id = call[t].id /\ Take(t, g.id, FALSE, g.active)
    BY <1>2
  <2>2. g.id \in Id /\ g.active \in BOOLEAN
    BY <2>1 DEF ConfigInv, TablesOK, Row
  <2>3. g.active => g.id \in Active
    BY <2>1 DEF Active, ActiveIn
  <2>4. call[t].list = <<>>
    BY <1>1 DEF ConfigInv, CallOK, Ensuring
  <2> QED
    BY <1>1, <2>1, <2>2, <2>3, <2>4, TakeInv
<1>3. CASE Fail(t)
  BY <1>1, <1>3, FailInv
<1> QED
  BY <1>2, <1>3 DEF Find

LEMMA InsertConfigGenerationInv ==
  ASSUME ConfigInv, NEW t \in Client, InsertConfigGeneration(t)
  PROVE  ConfigInv'
<1>1. /\ call[t].pc = "insert" /\ UNCHANGED <<schemas, gens, sent>>
      /\ drawn < MaxGen /\ drawn' = drawn + 1
      /\ \A u \in Client \ {t} : call[u].new => Identity(call[u].list) # Identity(call[t].list)
  BY DEF InsertConfigGeneration
<1>2. /\ drawn \in Nat /\ drawn' \in 0..MaxGen /\ drawn <= drawn'
      /\ drawn + 1 \in Id /\ drawn < drawn + 1 /\ drawn + 1 <= drawn'
  BY <1>1, ConfigAssumption DEF ConfigInv, TablesOK, Id
<1>3. CASE SameIdentity(t) = {} /\ Take(t, drawn + 1, TRUE, FALSE)
  <2>1. \A g \in gens : g.id # drawn + 1 /\ g.identity # Identity(call[t].list)
    <3> TAKE g \in gens
    <3>1. g.id <= drawn /\ g.id \in Nat
      BY ConfigAssumption DEF ConfigInv, TablesOK, Row, Id
    <3> QED
      BY <1>2, <1>3, <3>1 DEF SameIdentity
  <2>2. call[t].list # <<>>
    BY <1>1 DEF ConfigInv, CallOK, Ensuring
  <2> QED
    BY <1>1, <1>2, <1>3, <2>1, <2>2, TakeInv
<1>4. CASE SameIdentity(t) # {} /\ Retry(t)
  BY <1>1, <1>2, <1>4, RetryInv
<1> QED
  BY <1>3, <1>4 DEF InsertConfigGeneration

-----------------------------------------------------------------------------
(* Activation *)

LEMMA ActivateInv ==
  ASSUME ConfigInv, NEW t \in Client, ActivateConfigGeneration(t)
  PROVE  ConfigInv'
<1>1. UNCHANGED <<schemas, gens, sent>> /\ drawn' \in 0..MaxGen /\ drawn <= drawn'
  BY ConfigAssumption DEF ActivateConfigGeneration, tables, ConfigInv, TablesOK
<1>2. PICK id \in Id :
        call' = [call EXCEPT ![t] = [Idle EXCEPT !.pc = "find", !.id = id, !.activate = TRUE,
                                                 !.seen = Active]]
  BY DEF ActivateConfigGeneration
<1> DEFINE d == [Idle EXCEPT !.pc = "find", !.id = id, !.activate = TRUE, !.seen = Active]
<1>3. d \in CallType
  <2>1. "find" \in Step /\ id \in 0..MaxGen /\ Active \in SUBSET Id
    BY ActiveIds DEF Step, Id
  <2> QED
    BY <2>1, IdleOK DEF CallType
<1>4. /\ d.pc = "find" /\ d.list = <<>> /\ d.todo = <<>> /\ d.added = {}
      /\ d.new = FALSE /\ d.live = FALSE /\ d.dead = {} /\ d.attempt = 0
      /\ d.activate = TRUE /\ d.seen = Active /\ d.ack = NoAck
  BY DEF Idle
<1> HIDE DEF d
<1>5. DOMAIN <<>> = {}
  OBVIOUS
<1>6. Ensuring(d)
  BY <1>4, <1>5 DEF Ensuring
<1>7. Knowing(d) /\ Activating(d) /\ Answered(d.ack)
  BY <1>4 DEF Knowing, Activating, Answered, Taken, NoAck
<1>8. \A c : Apart(d, c)
  BY <1>4 DEF Apart
<1>9. call' = [call EXCEPT ![t] = d]
  BY <1>2 DEF d
<1> QED
  BY <1>1, <1>3, <1>4, <1>6, <1>7, <1>8, <1>9, StatementInv DEF CallOK

\* From the deactivation to the wait for the index: nothing shows, and only
\* rows of the table and the one of the call are locked.
LEMMA ActivatingInv ==
  ASSUME ConfigInv, NEW t \in Client, NEW STATE d, d \in CallType,
         call' = [call EXCEPT ![t] = d], UNCHANGED tables,
         call[t].pc \in {"deactivate", "deactivating", "activate"},
         d.pc \in {"deactivating", "activate", "index"}, d.live <=> d.pc = "index",
         d.list = call[t].list, d.todo = call[t].todo, d.added = call[t].added,
         d.id = call[t].id, d.new = call[t].new, d.attempt = call[t].attempt,
         d.activate = call[t].activate, d.seen = call[t].seen, d.ack = call[t].ack
  PROVE  ConfigInv'
<1> DEFINE c == call[t]
<1>1. c \in CallType /\ CallOK(c) /\ (c.new => c.id <= drawn) /\ \A u \in Client \ {t} : Apart(c, call[u])
  BY DEF ConfigInv
<1>2. Ensuring(d)
  BY <1>1 DEF CallOK, Ensuring
<1>3. Knowing(d)
  BY <1>1 DEF CallOK, Knowing, Taken
<1>4. Activating(d)
  BY <1>1 DEF CallOK, Activating, Taken
<1>5. \A u \in Client \ {t} : Apart(d, call[u])
  BY <1>1 DEF Apart
<1>6. UNCHANGED <<schemas, gens, sent>> /\ drawn' \in 0..MaxGen /\ drawn <= drawn'
  BY ConfigAssumption DEF tables, ConfigInv, TablesOK
<1>7. d.new => d.id <= drawn'
  BY <1>1 DEF tables
<1>8. Answered(d.ack)
  BY <1>1 DEF CallOK
<1> QED
  BY <1>2, <1>3, <1>4, <1>5, <1>6, <1>7, <1>8, StatementInv DEF CallOK

LEMMA DeactivateInv ==
  ASSUME ConfigInv, NEW t \in Client, Deactivate(t)
  PROVE  ConfigInv'
<1> DEFINE d == [call[t] EXCEPT !.target = Active \ {call[t].id}, !.pc = "deactivating"]
<1>1. call[t] \in CallType /\ call[t].pc = "deactivate"
  BY DEF ConfigInv, Deactivate
<1>2. call' = [call EXCEPT ![t] = d] /\ UNCHANGED tables
  BY DEF Deactivate
<1>3. /\ d \in CallType /\ d.pc = "deactivating" /\ d.live = call[t].live
      /\ d.list = call[t].list /\ d.todo = call[t].todo /\ d.added = call[t].added
      /\ d.id = call[t].id /\ d.new = call[t].new /\ d.attempt = call[t].attempt
      /\ d.activate = call[t].activate /\ d.seen = call[t].seen /\ d.ack = call[t].ack
  <2>1. "deactivating" \in Step /\ Active \ {call[t].id} \in SUBSET Id
    BY ActiveIds DEF Step, Taken
  <2> QED
    BY <1>1, <2>1 DEF CallType
<1>4. call[t].live = FALSE
  BY <1>1 DEF ConfigInv, CallOK, Activating, CallType
<1> HIDE DEF d
<1> QED
  BY <1>1, <1>2, <1>3, <1>4, ActivatingInv

LEMMA DeactivateFoundInv ==
  ASSUME ConfigInv, NEW t \in Client, DeactivateFound(t)
  PROVE  ConfigInv'
<1> DEFINE d == [call[t] EXCEPT !.dead = call[t].target \cap Active, !.target = {},
                                !.pc = "activate"]
<1>1. call[t] \in CallType /\ call[t].pc = "deactivating"
  BY DEF ConfigInv, DeactivateFound
<1>2. call' = [call EXCEPT ![t] = d] /\ UNCHANGED tables
  BY DEF DeactivateFound
<1>3. /\ d \in CallType /\ d.pc = "activate" /\ d.live = call[t].live
      /\ d.list = call[t].list /\ d.todo = call[t].todo /\ d.added = call[t].added
      /\ d.id = call[t].id /\ d.new = call[t].new /\ d.attempt = call[t].attempt
      /\ d.activate = call[t].activate /\ d.seen = call[t].seen /\ d.ack = call[t].ack
  <2>1. "activate" \in Step /\ call[t].target \cap Active \in SUBSET Id
    BY ActiveIds DEF Step, Taken
  <2> QED
    BY <1>1, <2>1 DEF CallType
<1>4. call[t].live = FALSE
  BY <1>1 DEF ConfigInv, CallOK, Activating, CallType
<1> HIDE DEF d
<1> QED
  BY <1>1, <1>2, <1>3, <1>4, ActivatingInv

LEMMA ActivateRowInv ==
  ASSUME ConfigInv, NEW t \in Client, ActivateRow(t)
  PROVE  ConfigInv'
<1> DEFINE d == [call[t] EXCEPT !.live = TRUE, !.pc = "index"]
<1>1. call[t] \in CallType /\ call[t].pc = "activate"
  BY DEF ConfigInv, ActivateRow
<1>2. call' = [call EXCEPT ![t] = d] /\ UNCHANGED tables
  BY DEF ActivateRow
<1>3. /\ d \in CallType /\ d.pc = "index" /\ d.live = TRUE
      /\ d.list = call[t].list /\ d.todo = call[t].todo /\ d.added = call[t].added
      /\ d.id = call[t].id /\ d.new = call[t].new /\ d.attempt = call[t].attempt
      /\ d.activate = call[t].activate /\ d.seen = call[t].seen /\ d.ack = call[t].ack
  BY <1>1 DEF CallType, Step, Taken
<1> HIDE DEF d
<1> QED
  BY <1>1, <1>2, <1>3, ActivatingInv

LEMMA SingleActiveIndexInv ==
  ASSUME ConfigInv, NEW t \in Client, SingleActiveIndex(t)
  PROVE  ConfigInv'
<1>1. /\ call[t].pc = "index" /\ UNCHANGED tables
      /\ \A u \in Client \ {t} : ~(call[u].live /\ call[u].pc = "commit")
  BY DEF SingleActiveIndex
<1>2. CASE Active \ (call[t].dead \cup {call[t].id}) = {} /\ Goto(t, "commit")
  <2>1. call[t].live /\ Active \subseteq call[t].dead \cup {call[t].id}
    BY <1>1, <1>2 DEF ConfigInv, CallOK, Activating
  <2> QED
    BY <1>1, <1>2, <2>1, GotoInv DEF Step, Taken
<1>3. CASE Fail(t)
  BY <1>1, <1>3, ConfigAssumption, FailInv DEF tables, ConfigInv, TablesOK
<1> QED
  BY <1>2, <1>3 DEF SingleActiveIndex

LEMMA AbortInv ==
  ASSUME ConfigInv, NEW t \in Client, Abort(t)
  PROVE  ConfigInv'
BY ConfigAssumption, FailInv DEF Abort, tables, ConfigInv, TablesOK

-----------------------------------------------------------------------------
(* Commit *)

\* Row h is what the commit of c makes of row g.
After(c, g, h) ==
    /\ h.id = g.id /\ h.identity = g.identity /\ h.refs = g.refs
    /\ h.active <=> (g.active /\ g.id \notin c.dead) \/ (c.live /\ g.id = c.id)

\* Row h is the one the commit of c adds.
Added(c, h) ==
    /\ c.new /\ h.id = c.id /\ h.identity = Identity(c.list) /\ h.refs = RefsOf(c.list)
    /\ h.active <=> c.live

\* The table after the commit: the rows before it and the inserted one.
LEMMA CommittedRows ==
  ASSUME ConfigInv, NEW t \in Client, Commit(t)
  PROVE  /\ gens' \subseteq Row
         /\ \A g \in gens : \E h \in gens' : After(call[t], g, h)
         /\ call[t].new => \E h \in gens' : Added(call[t], h)
         /\ \A h \in gens' : (\E g \in gens : After(call[t], g, h)) \/ Added(call[t], h)
<1> DEFINE act(g) == (g.active /\ g.id \notin call[t].dead) \/ (call[t].live /\ g.id = call[t].id)
           after(g) == [g EXCEPT !.active = act(g)]
           row == [id |-> call[t].id, identity |-> Identity(call[t].list),
                   refs |-> RefsOf(call[t].list), active |-> FALSE]
<1>1. gens' = {after(g) : g \in gens \cup NewRow(t)} /\ call[t] \in CallType
  BY DEF Commit, Updated, ConfigInv
<1>2. ASSUME NEW g \in Row
      PROVE  /\ after(g) \in Row /\ after(g).id = g.id /\ after(g).identity = g.identity
             /\ after(g).refs = g.refs /\ (after(g).active <=> act(g))
  <2>1. act(g) \in BOOLEAN
    OBVIOUS
  <2> HIDE DEF act
  <2> QED
    BY <2>1 DEF Row
<1>3. gens \subseteq Row
  BY DEF ConfigInv, TablesOK
<1>4. CASE call[t].new
  <2>1. call[t].list \in Requests /\ call[t].id \in Id
    BY <1>1, <1>4 DEF ConfigInv, CallOK, Knowing, CallType
  <2>2. /\ row \in Row /\ row.id = call[t].id /\ row.identity = Identity(call[t].list)
        /\ row.refs = RefsOf(call[t].list) /\ row.active = FALSE
    <3>1. call[t].list \in Seq(Item) /\ DOMAIN call[t].list = 1..Len(call[t].list)
          /\ Len(call[t].list) \in Nat
      BY <2>1, RequestIs
    <3>2. ASSUME NEW i \in DOMAIN call[t].list PROVE call[t].list[i].schema \in Schema
      <4>1. call[t].list[i] \in Item
        BY <3>1, ElementOfSeq
      <4> QED
        BY <4>1 DEF Item
    <3>3. RefsOf(call[t].list) \in Seq(Schema) /\ Identity(call[t].list) \subseteq Schema
      BY <3>1, <3>2 DEF RefsOf, Identity
    <3> QED
      BY <2>1, <3>3 DEF Row
  <2>3. gens' = {after(g) : g \in gens \cup {row}}
    BY <1>1, <1>4 DEF NewRow
  <2> HIDE DEF after, row
  <2>4. act(row) <=> call[t].live
    BY <2>2 DEF act
  <2>5. after(row) \in Row /\ Added(call[t], after(row))
    BY <1>2, <1>4, <2>2, <2>4 DEF Added
  <2>6. \A g \in gens : after(g) \in Row /\ After(call[t], g, after(g))
    BY <1>2, <1>3 DEF After
  <2> QED
    BY <2>3, <2>5, <2>6
<1>5. CASE ~call[t].new
  <2>1. gens' = {after(g) : g \in gens}
    BY <1>1, <1>5 DEF NewRow
  <2> HIDE DEF after
  <2>2. \A g \in gens : after(g) \in Row /\ After(call[t], g, after(g))
    BY <1>2, <1>3 DEF After
  <2> QED
    BY <1>5, <2>1, <2>2
<1> QED
  BY <1>4, <1>5

\* What is active after the commit: the generation of an activation, or what
\* was active before.
LEMMA CommittedActive ==
  ASSUME ConfigInv, NEW t \in Client, Commit(t)
  PROVE  /\ call[t].live => Active' = {call[t].id}
         /\ ~call[t].live => Active' = Active
<1> DEFINE c == call[t]
<1>1. CallOK(c) /\ c.pc = "commit"
  BY DEF ConfigInv, Commit
<1>2. /\ \A id : id \in Active <=> \E g \in gens : g.id = id /\ g.active
      /\ \A id : id \in Active' <=> \E h \in gens' : h.id = id /\ h.active
  BY DEF Active, ActiveIn
<1>3. /\ \A g \in gens : \E h \in gens' : After(c, g, h)
      /\ c.new => \E h \in gens' : Added(c, h)
      /\ \A h \in gens' : (\E g \in gens : After(c, g, h)) \/ Added(c, h)
  BY CommittedRows
<1> HIDE DEF c
<1>4. ASSUME c.live PROVE Active' = {c.id}
  <2>1. c.id \in Active'
    <3>1. CASE c.new
      BY <1>2, <1>3, <1>4, <3>1 DEF Added
    <3>2. CASE \E g \in gens : g.id = c.id
      BY <1>2, <1>3, <1>4, <3>2 DEF After
    <3> QED
      BY <1>1, <3>1, <3>2 DEF CallOK, Knowing, Taken
  <2>2. ASSUME NEW id \in Active' PROVE id = c.id
    <3>1. PICK h \in gens' : h.id = id /\ h.active
      BY <1>2
    <3>2. CASE Added(c, h)
      BY <3>1, <3>2 DEF Added
    <3>3. CASE \E g \in gens : After(c, g, h)
      <4>1. PICK g \in gens : After(c, g, h)
        BY <3>3
      <4>2. Active \subseteq c.dead \cup {c.id}
        BY <1>1, <1>4 DEF CallOK, Activating
      <4> QED
        BY <1>2, <3>1, <4>1, <4>2 DEF After
    <3> QED
      BY <1>3, <3>2, <3>3
  <2> QED
    BY <2>1, <2>2
<1>5. ASSUME ~c.live PROVE Active' = Active
  <2>1. c.dead = {}
    BY <1>1, <1>5 DEF CallOK, Activating
  <2>2. ASSUME NEW id \in Active' PROVE id \in Active
    BY <1>2, <1>3, <1>5, <2>1 DEF After, Added
  <2>3. ASSUME NEW id \in Active PROVE id \in Active'
    BY <1>2, <1>3, <1>5, <2>1 DEF After
  <2> QED
    BY <2>2, <2>3
<1> QED
  BY <1>4, <1>5 DEF c

\* What the client's next call finds: the answer of this one.
LEMMA CommitCalls ==
  ASSUME ConfigInv, NEW t \in Client, Commit(t)
  PROVE  /\ call' \in [Client -> CallType]
         /\ call'[t] = [Idle EXCEPT !.ack = Ack(t, call[t].seen \cup Active')]
         /\ \A u \in Client \ {t} :
               /\ call'[u].pc = call[u].pc /\ call'[u].list = call[u].list
               /\ call'[u].todo = call[u].todo /\ call'[u].added = call[u].added
               /\ call'[u].id = call[u].id /\ call'[u].new = call[u].new
               /\ call'[u].live = call[u].live /\ call'[u].dead = call[u].dead
               /\ call'[u].attempt = call[u].attempt /\ call'[u].ack = call[u].ack
               /\ call'[u].activate = call[u].activate
               /\ call[u].activate => call'[u].seen = call[u].seen \cup Active'
<1>1. Active' = ActiveIn(Updated(t)) /\ call \in [Client -> CallType]
  BY DEF Commit, Active, ConfigInv
<1>2. call' = [u \in Client |->
                 IF u = t THEN [Idle EXCEPT !.ack = Ack(t, call[u].seen \cup Active')]
                 ELSE IF call[u].activate THEN [call[u] EXCEPT !.seen = call[u].seen \cup Active']
                 ELSE call[u]]
  BY <1>1, Zenon DEF Commit
<1>3. Active' \subseteq Id
  BY CommittedRows DEF Active, ActiveIn, Row
<1>4. [Idle EXCEPT !.ack = Ack(t, call[t].seen \cup Active')] \in CallType
  <2>1. call[t].activate \in BOOLEAN /\ call[t].list \in {<<>>} \cup Requests /\ call[t].id \in 0..MaxGen
    BY <1>1 DEF CallType
  <2>2. Ack(t, call[t].seen \cup Active') \in AckType
    BY <2>1 DEF Ack, AckType
  <2> QED
    BY <2>2, IdleOK DEF CallType
<1>5. ASSUME NEW u \in Client \ {t}
      PROVE  [call[u] EXCEPT !.seen = call[u].seen \cup Active'] \in CallType
  BY <1>1, <1>3 DEF CallType
<1>6. ASSUME NEW u \in Client \ {t}
      PROVE  /\ call'[u].pc = call[u].pc /\ call'[u].list = call[u].list
             /\ call'[u].todo = call[u].todo /\ call'[u].added = call[u].added
             /\ call'[u].id = call[u].id /\ call'[u].new = call[u].new
             /\ call'[u].live = call[u].live /\ call'[u].dead = call[u].dead
             /\ call'[u].attempt = call[u].attempt /\ call'[u].ack = call[u].ack
             /\ call'[u].activate = call[u].activate
             /\ call[u].activate => call'[u].seen = call[u].seen \cup Active'
  <2>1. call[u] \in CallType
    BY <1>1
  <2>2. CASE call[u].activate
    <3>1. call'[u] = [call[u] EXCEPT !.seen = call[u].seen \cup Active']
      BY <1>2, <2>2
    <3> QED
      BY <2>1, <3>1 DEF CallType
  <2>3. CASE ~call[u].activate
    BY <1>2, <2>3
  <2> QED
    BY <2>2, <2>3
<1> QED
  BY <1>1, <1>2, <1>4, <1>5, <1>6, Zenon

\* Both tables keep their keys and references.
LEMMA CommitTables ==
  ASSUME ConfigInv, NEW t \in Client, Commit(t)
  PROVE  TablesOK'
<1> DEFINE c == call[t]
<1>1. c \in CallType /\ CallOK(c) /\ c.pc = "commit" /\ (c.new => c.id <= drawn) /\ TablesOK
  BY DEF ConfigInv, Commit
<1>2. schemas' = schemas \cup c.added /\ drawn' = drawn
  BY DEF Commit
<1>3. sent' \in 0..MaxSent
  BY <1>1, ConfigAssumption DEF Commit, TablesOK
<1>4. /\ gens' \subseteq Row
      /\ \A h \in gens' : (\E g \in gens : After(c, g, h)) \/ Added(c, h)
  BY CommittedRows
<1>5. schemas' \subseteq Stored /\ \A r, s \in schemas' : r.schema = s.schema => r = s
  BY <1>1, <1>2 DEF TablesOK, CallType, CallOK, Ensuring
<1>6. c.new => \A g \in gens : g.id # c.id /\ g.identity # Identity(c.list)
  BY <1>1 DEF CallOK, Knowing
<1>7. c.new => c.list \in Requests
  BY <1>1 DEF CallType, CallOK, Knowing
<1>8. \A i \in DOMAIN c.list : \E r \in schemas' : r.schema = c.list[i].schema
  <2>1. c.todo = <<>> /\ DOMAIN <<>> = {}
    BY <1>1 DEF CallOK, Ensuring
  <2> QED
    BY <1>1, <1>2, <2>1 DEF CallOK, Ensuring
<1> HIDE DEF c
<1>9. ASSUME NEW h \in gens'
      PROVE  /\ h.id <= drawn'
             /\ \E list \in Requests : h.refs = RefsOf(list) /\ h.identity = Identity(list)
             /\ \A i \in DOMAIN h.refs : \E r \in schemas' : r.schema = h.refs[i]
  <2>1. CASE \E g \in gens : After(c, g, h)
    BY <1>1, <1>2, <2>1 DEF TablesOK, After
  <2>2. CASE Added(c, h)
    <3>1. h.id = c.id /\ h.refs = RefsOf(c.list) /\ h.identity = Identity(c.list) /\ c.new
      BY <2>2 DEF Added
    <3>2. \A i \in DOMAIN h.refs : i \in DOMAIN c.list /\ h.refs[i] = c.list[i].schema
      BY <3>1 DEF RefsOf
    <3> QED
      BY <1>1, <1>2, <1>7, <1>8, <3>1, <3>2
  <2> QED
    BY <1>4, <2>1, <2>2
<1>10. ASSUME NEW g \in gens', NEW h \in gens', g.id = h.id \/ g.identity = h.identity
       PROVE  g = h
  <2>1. g \in Row /\ h \in Row
    BY <1>4
  <2>2. g.id = h.id /\ g.identity = h.identity /\ g.refs = h.refs /\ (g.active <=> h.active)
    <3>1. CASE Added(c, g) /\ Added(c, h)
      BY <3>1 DEF Added
    <3>2. CASE Added(c, g) /\ \E k \in gens : After(c, k, h)
      BY <1>6, <1>10, <3>2 DEF Added, After
    <3>3. CASE (\E k \in gens : After(c, k, g)) /\ Added(c, h)
      BY <1>6, <1>10, <3>3 DEF Added, After
    <3>4. CASE (\E k \in gens : After(c, k, g)) /\ \E k \in gens : After(c, k, h)
      <4>1. PICK k \in gens, l \in gens : After(c, k, g) /\ After(c, l, h)
        BY <3>4
      <4>2. k = l
        BY <1>1, <1>10, <4>1 DEF After, TablesOK
      <4> QED
        BY <4>1, <4>2 DEF After
    <3> QED
      BY <1>4, <3>1, <3>2, <3>3, <3>4
  <2>3. g.active \in BOOLEAN /\ h.active \in BOOLEAN
    BY <2>1 DEF Row
  <2>4. g.active = h.active
    BY <2>2, <2>3
  <2> QED
    BY <2>1, <2>2, <2>4 DEF Row
<1>11. ASSUME NEW g \in gens', NEW h \in gens', g.active /\ h.active
       PROVE  g = h
  <2>1. g.id \in Active' /\ h.id \in Active'
    BY <1>11 DEF Active, ActiveIn
  <2>2. g.id = h.id
    <3>1. CASE c.live
      BY <2>1, <3>1, CommittedActive DEF c
    <3>2. CASE ~c.live
      <4>1. g.id \in Active /\ h.id \in Active
        BY <2>1, <3>2, CommittedActive DEF c
      <4> QED
        BY <1>1, <4>1 DEF TablesOK, Active, ActiveIn
    <3> QED
      BY <3>1, <3>2
  <2> QED
    BY <1>10, <2>2
<1> QED
  BY <1>1, <1>2, <1>3, <1>4, <1>5, <1>9, <1>10, <1>11 DEF TablesOK

LEMMA CommitInv ==
  ASSUME ConfigInv, NEW t \in Client, Commit(t)
  PROVE  ConfigInv'
<1> DEFINE c == call[t]
<1>1. c \in CallType /\ CallOK(c) /\ c.pc = "commit" /\ (c.new => c.id <= drawn)
  BY DEF ConfigInv, Commit
<1>2. schemas' = schemas \cup c.added /\ drawn' = drawn
  BY DEF Commit
<1>3. /\ \A g \in gens : \E h \in gens' : After(c, g, h)
      /\ c.new => \E h \in gens' : Added(c, h)
      /\ \A h \in gens' : (\E g \in gens : After(c, g, h)) \/ Added(c, h)
  BY CommittedRows
<1>4. /\ \A g \in gens : \E h \in gens' : h.id = g.id /\ h.identity = g.identity
      /\ \A id, ident : HasRow(id, ident) => HasRow(id, ident)'
  BY <1>3 DEF After, HasRow
<1>5. /\ c.live => Active' = {c.id}
      /\ ~c.live => Active' = Active
  BY CommittedActive
<1>6. ASSUME NEW u \in Client \ {t}
      PROVE  /\ call'[u].pc = call[u].pc /\ call'[u].list = call[u].list
             /\ call'[u].todo = call[u].todo /\ call'[u].added = call[u].added
             /\ call'[u].id = call[u].id /\ call'[u].new = call[u].new
             /\ call'[u].live = call[u].live /\ call'[u].dead = call[u].dead
             /\ call'[u].attempt = call[u].attempt /\ call'[u].ack = call[u].ack
             /\ call'[u].activate = call[u].activate
             /\ call[u].activate => call'[u].seen = call[u].seen \cup Active'
  BY CommitCalls
<1>7. ASSUME NEW u \in Client \ {t}
      PROVE  CallOK(call[u]) /\ Apart(c, call[u]) /\ (call[u].new => call[u].id <= drawn)
             /\ call[u] \in CallType
  BY DEF ConfigInv
<1> HIDE DEF c
<1>8. ASSUME NEW u \in Client \ {t} PROVE CallOK(call[u])'
  <2> DEFINE d == call[u]
  <2>1. CallOK(d) /\ Apart(c, d) /\ d \in CallType
    BY <1>7
  <2>2. /\ call'[u].pc = d.pc /\ call'[u].list = d.list /\ call'[u].todo = d.todo /\ call'[u].added = d.added
        /\ call'[u].id = d.id /\ call'[u].new = d.new /\ call'[u].live = d.live /\ call'[u].dead = d.dead
        /\ call'[u].attempt = d.attempt /\ call'[u].ack = d.ack /\ call'[u].activate = d.activate
        /\ d.activate => call'[u].seen = d.seen \cup Active'
    BY <1>6
  <2> HIDE DEF d
  <2>3. Ensuring(call[u])'
    <3>1. \A r \in d.added, s \in schemas' : r.schema # s.schema
      BY <1>2, <2>1 DEF CallOK, Ensuring, Apart
    <3>2. \A i \in DOMAIN d.list :
            \/ \E r \in schemas' \cup d.added : r.schema = d.list[i].schema
            \/ \E j \in DOMAIN d.todo : d.todo[j].schema = d.list[i].schema
      BY <1>2, <2>1 DEF CallOK, Ensuring
    <3> QED
      BY <2>1, <2>2, <3>1, <3>2 DEF CallOK, Ensuring
  <2>4. Knowing(call[u])'
    <3>1. d.new => \A h \in gens' : h.id # d.id /\ h.identity # Identity(d.list)
      BY <1>3, <2>1 DEF After, Added, CallOK, Knowing, Apart
    <3> QED
      BY <1>4, <2>1, <2>2, <3>1 DEF CallOK, Knowing
  <2>5. Activating(call[u])'
    <3>1. d.pc = "commit" /\ d.live => Active' \subseteq d.dead \cup {d.id}
      BY <1>1, <1>5, <2>1 DEF CallOK, Activating, Apart
    <3> QED
      BY <2>1, <2>2, <3>1 DEF CallOK, Activating
  <2>6. Answered(call[u].ack)'
    BY <1>4, <2>1, <2>2 DEF CallOK, Answered
  <2> QED
    BY <2>3, <2>4, <2>5, <2>6 DEF CallOK
<1>9. CallOK(call[t])' /\ ~call'[t].new /\ \A x : Apart(call'[t], x) /\ Apart(x, call'[t])
  <2> DEFINE a == Ack(t, c.seen \cup Active')
             e == [Idle EXCEPT !.ack = a]
  <2>1. call'[t] = e
    BY CommitCalls DEF c
  <2>2. /\ e.pc = "idle" /\ e.list = <<>> /\ e.todo = <<>> /\ e.added = {}
        /\ e.new = FALSE /\ e.live = FALSE /\ e.dead = {} /\ e.attempt = 0
        /\ e.activate = FALSE /\ e.ack = a
    BY DEF Idle
  <2>3. a.list = c.list /\ a.id = c.id /\ a.honoured = (c.activate => c.id \in c.seen \cup Active')
    BY DEF Ack, c
  <2> HIDE DEF a, e
  <2>4. c.list # <<>> => \E h \in gens' : h.id = c.id /\ h.identity = Identity(c.list)
    <3>1. c.list # <<>> => c.new \/ HasRow(c.id, Identity(c.list))
      BY <1>1 DEF CallOK, Knowing, Taken, HasRow
    <3>2. c.new => \E h \in gens' : h.id = c.id /\ h.identity = Identity(c.list)
      BY <1>3 DEF Added
    <3> QED
      BY <1>4, <3>1, <3>2 DEF HasRow
  <2>5. c.activate => c.id \in c.seen \cup Active'
    BY <1>1, <1>5 DEF CallOK, Activating
  <2>6. Answered(call[t].ack)'
    BY <2>1, <2>2, <2>3, <2>4, <2>5 DEF Answered, HasRow
  <2>7. DOMAIN <<>> = {}
    OBVIOUS
  <2>8. Ensuring(call[t])' /\ Knowing(call[t])' /\ Activating(call[t])'
    BY <2>1, <2>2, <2>7 DEF Ensuring, Knowing, Activating, Taken
  <2>9. \A x : Apart(e, x) /\ Apart(x, e)
    BY <2>2 DEF Apart
  <2> QED
    BY <2>1, <2>2, <2>6, <2>8, <2>9 DEF CallOK
<1>10. ASSUME NEW u \in Client PROVE CallOK(call[u])' /\ (call[u].new => call[u].id <= drawn)'
  BY <1>2, <1>6, <1>7, <1>8, <1>9
<1>11. ASSUME NEW u \in Client, NEW v \in Client, u # v PROVE Apart(call[u], call[v])'
  <2>1. CASE u = t \/ v = t
    <3>1. Apart(call'[u], call'[v])
      BY <1>9, <2>1
    <3> QED
      BY <3>1 DEF Apart
  <2>2. CASE u # t /\ v # t
    <3>1. Apart(call[u], call[v])
      BY <1>11 DEF ConfigInv
    <3> QED
      BY <1>6, <2>2, <3>1 DEF Apart
  <2> QED
    BY <2>1, <2>2
<1>12. call' \in [Client -> CallType]
  BY CommitCalls
<1> QED
  BY <1>10, <1>11, <1>12, CommitTables DEF ConfigInv

-----------------------------------------------------------------------------
(* The invariant *)

LEMMA ConfigInitInv == ConfigInit => ConfigInv
<1> SUFFICES ASSUME ConfigInit PROVE ConfigInv
  OBVIOUS
<1>1. TablesOK
  BY ConfigAssumption DEF ConfigInit, TablesOK
<1>2. \A t \in Client : call[t] = Idle
  BY DEF ConfigInit
<1>3. call \in [Client -> CallType]
  BY IdleOK DEF ConfigInit
<1> QED
  BY <1>1, <1>2, <1>3, IdleOK DEF ConfigInv

LEMMA ConfigStutter ==
  ASSUME ConfigInv, UNCHANGED configVars
  PROVE  ConfigInv'
BY DEF ConfigInv, configVars, tables, TablesOK, CallOK, Ensuring, Knowing, Activating, Answered,
       Active, HasRow, Apart

LEMMA ConfigStepInv == ConfigInv /\ [ConfigNext]_configVars => ConfigInv'
<1> SUFFICES ASSUME ConfigInv, [ConfigNext]_configVars PROVE ConfigInv'
  OBVIOUS
<1>1. ASSUME NEW t \in Client, RegisterConfigGeneration(t) PROVE ConfigInv'
  BY <1>1, RegisterInv
<1>2. ASSUME NEW t \in Client, GetSchema(t) PROVE ConfigInv'
  BY <1>2, GetSchemaInv
<1>3. ASSUME NEW t \in Client, EnsureSchema(t) PROVE ConfigInv'
  BY <1>3, EnsureSchemaInv
<1>4. ASSUME NEW t \in Client, Lookup(t) PROVE ConfigInv'
  BY <1>4, LookupInv
<1>5. ASSUME NEW t \in Client, InsertConfigGeneration(t) PROVE ConfigInv'
  BY <1>5, InsertConfigGenerationInv
<1>6. ASSUME NEW t \in Client, ActivateConfigGeneration(t) PROVE ConfigInv'
  BY <1>6, ActivateInv
<1>7. ASSUME NEW t \in Client, Find(t) PROVE ConfigInv'
  BY <1>7, FindInv
<1>8. ASSUME NEW t \in Client, Deactivate(t) PROVE ConfigInv'
  BY <1>8, DeactivateInv
<1>9. ASSUME NEW t \in Client, DeactivateFound(t) PROVE ConfigInv'
  BY <1>9, DeactivateFoundInv
<1>10. ASSUME NEW t \in Client, ActivateRow(t) PROVE ConfigInv'
  BY <1>10, ActivateRowInv
<1>11. ASSUME NEW t \in Client, SingleActiveIndex(t) PROVE ConfigInv'
  BY <1>11, SingleActiveIndexInv
<1>12. ASSUME NEW t \in Client, Commit(t) PROVE ConfigInv'
  BY <1>12, CommitInv
<1>13. ASSUME NEW t \in Client, Abort(t) PROVE ConfigInv'
  BY <1>13, AbortInv
<1> QED
  BY <1>1, <1>2, <1>3, <1>4, <1>5, <1>6, <1>7, <1>8, <1>9, <1>10, <1>11, <1>12, <1>13,
     ConfigStutter DEF ConfigNext

LEMMA ConfigInvariant == ConfigSpec => []ConfigInv
BY ConfigInitInv, ConfigStepInv, PTL DEF ConfigSpec

-----------------------------------------------------------------------------
(* Theorems *)

\* The tables keep their primary keys, every generation lists schemas that are
\* stored, and every call is in one of its statements.
THEOREM ConfigTypeCorrect == ConfigSpec => []ConfigTypeOK
<1>1. ConfigInv => ConfigTypeOK
  <2> SUFFICES ASSUME ConfigInv PROVE ConfigTypeOK
    OBVIOUS
  <2>1. ASSUME NEW g \in gens
        PROVE  /\ g.id \in 1..drawn /\ g.active \in BOOLEAN
               /\ g.refs # <<>> /\ g.refs \in Seq(Schema)
               /\ \A i \in DOMAIN g.refs : \E r \in schemas : r.schema = g.refs[i]
    <3>1. g \in Row /\ g.id <= drawn /\ drawn \in Nat
      BY ConfigAssumption DEF ConfigInv, TablesOK
    <3>2. g.id \in 1..drawn
      BY <3>1, ConfigAssumption DEF Row, Id
    <3>3. PICK list \in Requests : g.refs = RefsOf(list)
      BY DEF ConfigInv, TablesOK
    <3>4. 1 \in DOMAIN g.refs
      BY <3>3, RequestIs DEF RefsOf
    <3>5. DOMAIN <<>> = {}
      OBVIOUS
    <3>6. g.refs # <<>>
      BY <3>4, <3>5
    <3> QED
      BY <3>1, <3>2, <3>6 DEF ConfigInv, TablesOK, Row
  <2>2. ASSUME NEW t \in Client
        PROVE  /\ call[t].pc \in {"idle", "schema", "ensure", "lookup", "insert", "find",
                                 "deactivate", "deactivating", "activate", "index", "commit"}
               /\ call[t].list \in {<<>>} \cup Requests
               /\ call[t].added \subseteq Stored
               /\ call[t].id \in 0..MaxGen
               /\ call[t].target \subseteq Id /\ call[t].dead \subseteq Id /\ call[t].seen \subseteq Id
    BY DEF ConfigInv, CallType, Step, Taken
  <2> QED
    BY <2>1, <2>2 DEF ConfigInv, TablesOK, ConfigTypeOK
<1> QED
  BY <1>1, ConfigInvariant, PTL

\* RegisterConfigGeneration answers one generation for one set of schemas,
\* whatever the order of the request, the clients that register it at once and
\* the retries they make, and that generation lists the set.
THEOREM RegistrationsAreIdempotent == ConfigSpec => []IdempotentRegistration
<1>1. ConfigInv => IdempotentRegistration
  <2> DEFINE Names(refs) == {refs[i] : i \in DOMAIN refs}
  <2> SUFFICES ASSUME ConfigInv, NEW t \in Client, NEW u \in Client,
                      call[t].ack.list # <<>>, call[u].ack.list # <<>>
               PROVE  /\ (Names(RefsOf(call[t].ack.list)) = Names(RefsOf(call[u].ack.list)))
                            <=> (call[t].ack.id = call[u].ack.id)
                      /\ \E g \in gens : /\ g.id = call[t].ack.id
                                         /\ Names(g.refs) = Names(RefsOf(call[t].ack.list))
    BY DEF IdempotentRegistration
  <2>1. \A list : Names(RefsOf(list)) = Identity(list)
    BY DEF RefsOf, Identity
  <2>2. PICK g \in gens : g.id = call[t].ack.id /\ g.identity = Identity(call[t].ack.list)
    BY DEF ConfigInv, CallOK, Answered, HasRow
  <2>3. PICK h \in gens : h.id = call[u].ack.id /\ h.identity = Identity(call[u].ack.list)
    BY DEF ConfigInv, CallOK, Answered, HasRow
  <2>4. PICK list \in Requests : g.refs = RefsOf(list) /\ g.identity = Identity(list)
    BY DEF ConfigInv, TablesOK
  <2>5. Names(g.refs) = Names(RefsOf(call[t].ack.list))
    BY <2>1, <2>2, <2>4
  <2>6. g.id = h.id \/ g.identity = h.identity => g = h
    BY DEF ConfigInv, TablesOK
  <2> HIDE DEF Names
  <2> QED
    BY <2>1, <2>2, <2>3, <2>5, <2>6
<1> QED
  BY <1>1, ConfigInvariant, PTL

\* A call that asked for activation and succeeded saw its generation active at
\* some moment between the request and the answer, even if another activation
\* has replaced it since.
THEOREM ActivationsAreHonoured == ConfigSpec => []ActivationHonoured
<1>1. ConfigInv => ActivationHonoured
  BY DEF ConfigInv, CallOK, Answered, ActivationHonoured
<1> QED
  BY <1>1, ConfigInvariant, PTL

\* The second attempt of a registration finds the generation it collided with.
THEOREM RetriesFindGenerations == ConfigSpec => []RetryFindsGeneration
<1>1. ConfigInv => RetryFindsGeneration
  BY DEF ConfigInv, CallOK, Knowing, RetryFindsGeneration
<1> QED
  BY <1>1, ConfigInvariant, PTL

\* Only a commit shows anything to others.
LEMMA HiddenSteps ==
  ASSUME [ConfigNext]_configVars, ~\E t \in Client : Commit(t)
  PROVE  UNCHANGED <<schemas, gens, sent>>
BY DEF ConfigNext, configVars, tables, RegisterConfigGeneration, GetSchema, EnsureSchema, Lookup,
       InsertConfigGeneration, ActivateConfigGeneration, Find, Deactivate, DeactivateFound,
       ActivateRow, SingleActiveIndex, Abort

\* No interleaving of activations, failures and crashes leaves two generations
\* active, or none once there was one.
THEOREM OneIsActive == ConfigSpec => OneActive
<1>1. ASSUME ConfigInv, ConfigInv', [ConfigNext]_configVars
      PROVE  Cardinality(Active') <= 1 /\ (Active # {} => Active' # {})
  <2>1. Cardinality(Active') <= 1
    <3>1. CASE Active' = {}
      BY <3>1, FS_EmptySet
    <3>2. CASE \E id : Active' = {id}
      <4>1. PICK id : Active' = {id}
        BY <3>2
      <4>2. Cardinality({id}) = 1
        BY FS_Singleton
      <4> QED
        BY <4>1, <4>2
    <3>3. \A x, y \in Active' : x = y
      BY <1>1 DEF ConfigInv, TablesOK, Active, ActiveIn
    <3> QED
      BY <3>1, <3>2, <3>3
  <2>2. ASSUME Active # {} PROVE Active' # {}
    <3>1. CASE \E t \in Client : Commit(t)
      BY <1>1, <2>2, <3>1, CommittedActive
    <3>2. CASE ~\E t \in Client : Commit(t)
      BY <1>1, <2>2, <3>2, HiddenSteps DEF Active
    <3> QED
      BY <3>1, <3>2
  <2> QED
    BY <2>1, <2>2
<1> QED
  BY <1>1, ConfigInvariant, PTL DEF ConfigSpec, OneActive

-----------------------------------------------------------------------------
(* Refinement *)

ContentOf(g) == [i \in DOMAIN g.refs |-> RowOf(g.refs[i])]

LEMMA RowOfIs ==
  ASSUME NEW s, \E r \in schemas : r.schema = s
  PROVE  RowOf(s) \in schemas /\ RowOf(s).schema = s
BY DEF RowOf

\* A commit adds schemas, and takes none away from a generation.
LEMMA ContentKept ==
  ASSUME ConfigInv, ConfigInv', NEW t \in Client, Commit(t), NEW g \in gens
  PROVE  ContentOf(g)' = ContentOf(g)
<1>1. schemas \subseteq schemas'
  BY DEF Commit
<1>2. ASSUME NEW s, \E r \in schemas : r.schema = s
      PROVE  RowOf(s)' = RowOf(s)
  <2>1. RowOf(s) \in schemas' /\ RowOf(s).schema = s
    BY <1>1, <1>2, RowOfIs
  <2>2. (\E r \in schemas : r.schema = s)'
    BY <1>1, <1>2
  <2>3. RowOf(s)' \in schemas' /\ RowOf(s)'.schema = s
    BY <2>2 DEF RowOf
  <2> QED
    BY <2>1, <2>3 DEF ConfigInv, TablesOK
<1>3. \A i \in DOMAIN g.refs : RowOf(g.refs[i])' = RowOf(g.refs[i])
  BY <1>2 DEF ConfigInv, TablesOK
<1> QED
  BY <1>3 DEF ContentOf

\* The inserted generation consists of stored schemas.
LEMMA ContentAdded ==
  ASSUME ConfigInv, ConfigInv', NEW t \in Client, Commit(t),
         NEW h \in gens', Added(call[t], h)
  PROVE  ContentOf(h)' \in Content
<1>1. PICK list \in Requests : h.refs = RefsOf(list)
  BY DEF Added, ConfigInv, CallOK, Knowing, CallType
<1>2. /\ Len(list) \in 1..Cardinality(Schema) /\ DOMAIN list = 1..Len(list)
      /\ \A i, j \in DOMAIN list : list[i].schema = list[j].schema => i = j
  BY RequestIs
<1>3. DOMAIN h.refs = 1..Len(list) /\ \A i \in 1..Len(list) : h.refs[i] = list[i].schema
  BY <1>1, <1>2 DEF RefsOf
<1>4. \A i \in DOMAIN h.refs : \E r \in schemas' : r.schema = h.refs[i]
  BY DEF ConfigInv, TablesOK
<1>5. \A i \in DOMAIN h.refs : RowOf(h.refs[i])' \in schemas' /\ RowOf(h.refs[i])'.schema = h.refs[i]
  BY <1>4 DEF RowOf
<1> DEFINE l == [i \in DOMAIN h.refs |-> RowOf(h.refs[i])']
<1>6. l \in [1..Len(list) -> Stored]
  BY <1>3, <1>5 DEF ConfigInv, TablesOK
<1>7. \A i, j \in DOMAIN l : l[i].schema = l[j].schema => i = j
  BY <1>2, <1>3, <1>5
<1>8. l = ContentOf(h)'
  BY DEF ContentOf
<1> HIDE DEF l
<1>9. l \in Distinct(Stored)
  BY <1>2, <1>6, <1>7 DEF Distinct
<1> QED
  BY <1>8, <1>9, ContentAssumption

LEMMA CommitRefines ==
  ASSUME ConfigInv, ConfigInv', NEW t \in Client, Commit(t)
  PROVE  Promise!Next \/ UNCHANGED <<Generations, ActiveId, sent>>
<1> DEFINE c == call[t]
           Gen(g) == [id |-> g.id, content |-> ContentOf(g)]
<1>1. CallOK(c) /\ c.pc = "commit"
  BY DEF ConfigInv, Commit
<1>2. Generations = {Gen(g) : g \in gens} /\ Generations' = {Gen(h)' : h \in gens'}
  BY DEF Generations, ContentOf
<1>3. /\ \A g \in gens : \E h \in gens' : After(c, g, h)
      /\ c.new => \E h \in gens' : Added(c, h)
      /\ \A h \in gens' : (\E g \in gens : After(c, g, h)) \/ Added(c, h)
  BY CommittedRows
<1>4. ASSUME NEW g \in gens, NEW h \in gens', After(c, g, h)
      PROVE  Gen(h)' = Gen(g)
  <2>1. ContentOf(h)' = ContentOf(g)'
    BY <1>4 DEF After, ContentOf
  <2> QED
    BY <1>4, <2>1, ContentKept DEF After
<1>5. /\ c.live => ActiveId' = c.id /\ sent' = sent + 1
      /\ ~c.live => ActiveId' = ActiveId /\ sent' = sent
  <2>1. c.live => Active' = {c.id}
    BY CommittedActive
  <2>2. ~c.live => Active' = Active
    BY CommittedActive
  <2>3. c.live => ActiveId' = c.id
    <3>1. \A x : (CHOOSE id \in {x} : TRUE) = x
      OBVIOUS
    <3> QED
      BY <2>1, <3>1 DEF ActiveId
  <2>4. ASSUME ~c.live PROVE ActiveId' = ActiveId
    <3>1. Active' = Active
      BY <2>2, <2>4
    <3> QED
      BY <3>1 DEF ActiveId
  <2> QED
    BY <2>3, <2>4 DEF Commit
<1>6. CASE c.new
  <2>1. PICK h \in gens' : Added(c, h)
    BY <1>3, <1>6
  <2>2. ContentOf(h)' \in Content /\ Gen(h)' = [id |-> c.id, content |-> ContentOf(h)']
    BY <2>1, ContentAdded DEF Added
  <2>3. c.id \in 1..MaxGen /\ \A g \in gens : g.id # c.id
    BY <1>1, <1>6 DEF CallOK, Knowing, Id
  <2>4. \A k \in gens' : Added(c, k) => k = h
    BY <2>1 DEF Added, ConfigInv, TablesOK
  <2> HIDE DEF c
  <2>5. Generations' = Generations \cup {Gen(h)'}
    <3>1. ASSUME NEW k \in gens' PROVE Gen(k)' \in Generations \cup {Gen(h)'}
      <4>1. CASE Added(c, k)
        BY <2>4, <4>1
      <4>2. CASE ~Added(c, k)
        <5>1. PICK g \in gens : After(c, g, k)
          BY <1>3, <4>2
        <5>2. Gen(k)' = Gen(g)
          BY <1>4, <5>1
        <5>3. Gen(g) \in Generations
          BY <1>2
        <5> QED
          BY <5>2, <5>3
      <4> QED
        BY <4>1, <4>2
    <3>2. \A g \in gens : Gen(g) \in {Gen(k)' : k \in gens'}
      BY <1>3, <1>4
    <3> HIDE DEF Gen
    <3> QED
      BY <1>2, <3>1, <3>2
  <2>6. \A g \in Generations : g.id # c.id
    BY <1>2, <2>3
  <2> HIDE DEF Gen
  <2>7. Promise!Register
    BY <1>5, <2>2, <2>3, <2>5, <2>6 DEF Promise!Register
  <2> QED
    BY <2>7 DEF Promise!Next
<1>7. CASE ~c.new
  <2>1. PICK g \in gens : g.id = c.id
    BY <1>1, <1>7 DEF CallOK, Knowing, Taken
  <2>2. ~\E h \in gens' : Added(c, h)
    BY <1>7 DEF Added
  <2>3. Gen(g) \in Generations /\ Gen(g).id = c.id
    BY <1>2, <2>1
  <2> HIDE DEF c
  <2>4. Generations' = Generations
    <3>1. \A k \in gens' : Gen(k)' \in Generations
      BY <1>2, <1>3, <1>4, <2>2
    <3>2. \A f \in gens : Gen(f) \in {Gen(k)' : k \in gens'}
      BY <1>3, <1>4
    <3> HIDE DEF Gen
    <3> QED
      BY <1>2, <3>1, <3>2
  <2> HIDE DEF Gen
  <2>5. c.live => Promise!Activate
    BY <1>5, <2>3, <2>4 DEF Promise!Activate
  <2> QED
    BY <1>5, <2>4, <2>5 DEF Promise!Next
<1> QED
  BY <1>6, <1>7

\* Every step of the store is one registration or activation of the promise,
\* or shows nothing: a generation never changes once it is registered, and no
\* activation is half visible or silent.
THEOREM ConfigStoreRefinesActiveGeneration == ConfigSpec => ActivationsAreAtomic
<1>1. ConfigInit => Promise!Init
  BY DEF ConfigInit, Promise!Init, Generations, ActiveId, Active, ActiveIn
<1>2. ASSUME ConfigInv, ConfigInv', [ConfigNext]_configVars
      PROVE  [Promise!Next]_<<Generations, ActiveId, sent>>
  <2>1. CASE \E t \in Client : Commit(t)
    BY <1>2, <2>1, CommitRefines
  <2>2. CASE ~\E t \in Client : Commit(t)
    <3>1. UNCHANGED <<schemas, gens, sent>>
      BY <1>2, <2>2, HiddenSteps
    <3>2. Active' = Active
      BY <3>1 DEF Active
    <3>3. ActiveId' = ActiveId
      BY <3>2 DEF ActiveId
    <3>4. \A s : RowOf(s)' = RowOf(s)
      BY <3>1 DEF RowOf
    <3>5. Generations' = Generations
      BY <3>1, <3>4 DEF Generations
    <3> QED
      BY <3>1, <3>3, <3>5
  <2> QED
    BY <2>1, <2>2
<1> QED
  BY <1>1, <1>2, ConfigInvariant, PTL DEF ConfigSpec, ActivationsAreAtomic, Promise!Spec
=============================================================================
